---- MODULE Spec2Model ----
(***************************************************************************)
(* A model of the local persistence and telemetry layer of the dApp front  *)
(* end: the favorites store (useFavorites), the search history store       *)
(* (useSearchHistory) and the performance monitor (usePerformanceMonitor); *)
(* of the query form with the query keys it and the query hooks hand to    *)
(* the query client; and of the request interceptor of the price service.  *)
(*                                                                         *)
(* Strings that the code normalises (addresses) are sequences of one-      *)
(* character strings, so that toLowerCase and trim are computed.  Optional *)
(* values (symbol?: string ...) are <<>> for undefined and <<v>> for v.    *)
(* JavaScript objects are functions from the keys they hold to values; a   *)
(* read of a key the object does not hold yields undefined.                *)
(***************************************************************************)
EXTENDS Integers, Sequences, FiniteSets, TLC

VARIABLES
  now,            \* Date.now(), in milliseconds
  quotaExceeded,  \* localStorage.setItem throws (storage full)
  favorites,      \* useFavorites: the favorites state of the hook instance
  favStore,       \* localStorage['dapp-favorite-tokens']
  doc,            \* the last document returned by exportFavorites()
  history,        \* useSearchHistory: the history state of the hook instance
  histStore,      \* localStorage['dapp-search-history']
  detours,        \* ghost: operations other than the one a long run repeats
  touched,        \* ghost: normalized addresses, most recently touched first
  addsOnly,       \* ghost: only addToHistory has mutated the history so far
  events,         \* usePerformanceMonitor: eventsRef.current
  metrics,        \* usePerformanceMonitor: metricsRef.current (cache part)
  appended,       \* ghost: events appended since creation or clearData
  calls,          \* ghost: recordCacheHit calls since creation or clearData
  trues,          \* ghost: recordCacheHit(true) calls since then
  contractAddress,  \* TokenQueryContent: the text of the address input
  queryAddress,     \* TokenQueryContent: the address handed to useTokenQuery
  error,            \* TokenQueryContent: the error message shown
  isConnected,      \* useAccount(): a wallet is connected
  chain,            \* useAccount(): the chain of the wallet, if any
  reads,            \* ghost: addresses for which a contract read was enabled
  queryCalls,       \* the calls made on the query client, oldest first
  lastRequestTime,  \* price-service: time of the last request let through
  pending,          \* price-service: where each request is in the interceptor
  sent,             \* ghost: the times at which requests left the interceptor
  panelHistory,     \* SearchHistory: the history state of its hook instance
  otherMonitor,     \* usePerformanceMonitor: the refs of a second instance
  priceCall,        \* price-service: the last call of a function, as it settled
  tokenReads,       \* useTokenQuery: the four contract reads of an address
  renderedView,     \* TokenQueryContent: what its last render has shown
  historyChanged,   \* setHistory has been called since the last render
  settledQueries,   \* ghost: the token queries that have settled
  lastOp          \* the operation performed last, its arguments and result

favVars  == <<favorites, favStore, doc>>
histVars == <<history, histStore, detours, touched, addsOnly>>
perfVars == <<events, metrics, appended, calls, trues>>
queryVars ==
  <<contractAddress, queryAddress, error, isConnected, chain, reads, queryCalls>>
priceVars == <<lastRequestTime, pending, sent>>
effectVars == <<tokenReads, renderedView, historyChanged, settledQueries>>
viewVars == <<panelHistory, otherMonitor, priceCall, effectVars>>
netVars == <<queryVars, priceVars, viewVars>>
vars == <<now, quotaExceeded, favVars, histVars, perfVars, netVars, lastOp>>

----------------------------------------------------------------------------
(* Bounds of the model *)

MaxTime == 1        \* the clock stops advancing here (favorites, small history)
NumAddresses == 22  \* distinct addresses passed to addToHistory (long history)
MaxDetours == 2     \* long history: operations other than adding a new address
MaxAppended == 152  \* event buffer: events recorded since the last clearData
MaxBursts == 2      \* event buffer: handlers other than recordError
MaxCalls == 6       \* cache statistics: recordCacheHit calls since clearData
MaxQueryCalls == 2  \* query client: calls recorded before the last operation
NumRequests == 3    \* price service: callers asking for prices
MaxSent == 3        \* price service: requests let through
LoadTime == 5000    \* price service: Date.now() when the page is loaded
ClockStep == 500    \* price service: milliseconds between two clock readings
MaxClock == 2000    \* price service: milliseconds the clock runs for

----------------------------------------------------------------------------
(* JavaScript values *)

Undefined == <<>>
Some(v) == <<v>>
\* null, for a state that holds a value (wrapped by Some) or null
Null == <<>>

\* o[k] of JavaScript: undefined when the object does not hold the key
Get(o, k) == IF k \in DOMAIN o THEN o[k] ELSE Undefined

Min(a, b) == IF a < b THEN a ELSE b

\* String.prototype.toLowerCase on one character (the letters in use)
LowerChar(c) ==
  CASE c = "A" -> "a"
    [] c = "B" -> "b"
    [] c = "C" -> "c"
    [] c = "D" -> "d"
    [] c = "E" -> "e"
    [] c = "F" -> "f"
    [] c = "O" -> "o"
    [] c = "R" -> "r"
    [] c = "X" -> "x"
    [] OTHER -> c

toLowerCase(s) == [i \in DOMAIN s |-> LowerChar(s[i])]

IsWhiteSpace(c) == c \in {" ", "\t", "\n"}

RECURSIVE trimStart(_)
trimStart(s) ==
  IF s # <<>> /\ IsWhiteSpace(Head(s)) THEN trimStart(Tail(s)) ELSE s

RECURSIVE trimEnd(_)
trimEnd(s) ==
  IF s # <<>> /\ IsWhiteSpace(s[Len(s)])
    THEN trimEnd(SubSeq(s, 1, Len(s) - 1))
    ELSE s

\* String.prototype.trim
trim(s) == trimEnd(trimStart(s))

\* Array.prototype.slice(0, n)
SliceHead(s, n) == SubSeq(s, 1, Min(n, Len(s)))

\* Array.prototype.slice(-n)
SliceTail(s, n) == SubSeq(s, Len(s) - Min(n, Len(s)) + 1, Len(s))

----------------------------------------------------------------------------
(* JSON: JSON.stringify drops the keys of an object whose value is         *)
(* undefined; JSON.parse gives back an object holding the remaining keys.  *)
(* A JSON text is represented by the value JSON.parse makes of it.         *)

OptionalKeys == {"symbol", "name", "decimals", "note", "tokenInfo"}

StringifyObject(o) ==
  [k \in {j \in DOMAIN o : ~(j \in OptionalKeys /\ o[j] = Undefined)} |-> o[k]]

StringifyArray(a) == [i \in DOMAIN a |-> StringifyObject(a[i])]

\* A storage slot: absent (getItem gives null), or a JSON text of an array
\* A storage slot: getItem yields null ("absent"), the empty string
\* ("empty"), the JSON text of an array ("json"), the JSON text of an object
\* ("object", its values in items), of null, a number or a string ("scalar"),
\* a text JSON.parse refuses ("invalid"), or getItem itself throws ("denied").
Absent == [kind |-> "absent", items |-> <<>>]
JsonText(a) == [kind |-> "json", items |-> StringifyArray(a)]

----------------------------------------------------------------------------
(* Array.prototype.sort((a, b) => b[key] - a[key]): a stable sort, largest *)
(* key first                                                               *)

RECURSIVE InsertDesc(_, _, _)
InsertDesc(x, s, key) ==
  IF s = <<>> THEN <<x>>
  ELSE IF Head(s)[key] >= x[key] THEN <<Head(s)>> \o InsertDesc(x, Tail(s), key)
       ELSE <<x>> \o s

RECURSIVE SortDesc(_, _)
SortDesc(s, key) ==
  IF s = <<>> THEN <<>>
  ELSE InsertDesc(s[Len(s)], SortDesc(SubSeq(s, 1, Len(s) - 1), key), key)

----------------------------------------------------------------------------
(* The operation performed last: its name, arguments and return value *)

Op(name) ==
  [op |-> name, address |-> <<>>, chainId |-> 0, id |-> <<>>,
   flag |-> FALSE, size |-> 0, ret |-> FALSE]

----------------------------------------------------------------------------
(* useFavorites *)

\* loadFavorites, run by the mount effect of a hook instance whose state is cur
\* loadFavorites taking whatever was parsed for a list
loadFavoritesArrayLike(cur, stored) ==
  IF stored.kind \in {"absent", "empty"} THEN cur
  ELSE SortDesc(stored.items, "addedAt")

loadFavorites(cur, stored) ==
  IF stored.kind \in {"absent", "empty"} THEN cur
  ELSE IF stored.kind = "json" THEN SortDesc(stored.items, "addedAt")
  ELSE <<>>

\* saveFavorites with setFavorites ahead of setItem
saveFavoritesStateFirst(newFavorites) ==
  /\ favorites' = newFavorites
  /\ favStore' = IF quotaExceeded THEN favStore ELSE JsonText(newFavorites)

\* saveFavorites: setItem, then setFavorites; a throwing setItem skips both
saveFavorites(newFavorites) ==
  IF quotaExceeded
    THEN UNCHANGED <<favorites, favStore>>
    ELSE /\ favStore' = JsonText(newFavorites)
         /\ favorites' = newFavorites

\* the comparison of isFavorite with the case folded on one side only
isFavoriteCaseSensitive(favs, address, chainId) ==
  \E i \in DOMAIN favs :
    favs[i]["address"] = address /\ favs[i]["chainId"] = chainId

isFavorite(favs, address, chainId) ==
  \E i \in DOMAIN favs :
    /\ toLowerCase(favs[i]["address"]) = toLowerCase(address)
    /\ favs[i]["chainId"] = chainId

newFavorite(tokenData) ==
  [id          |-> <<tokenData.chainId, toLowerCase(tokenData.address), now>>,
   address     |-> toLowerCase(tokenData.address),
   chainId     |-> tokenData.chainId,
   symbol      |-> tokenData.symbol,
   name        |-> tokenData.name,
   decimals    |-> tokenData.decimals,
   tags        |-> tokenData.tags,
   note        |-> tokenData.note,
   addedAt     |-> now,
   lastUpdated |-> now]

\* the body of addToFavorites: TRUE when it saves, FALSE when it rejects
addAccepted(tokenData) ==
  /\ tokenData.address # <<>>
  /\ tokenData.chainId # 0
  /\ ~isFavorite(favorites, tokenData.address, tokenData.chainId)

addToFavoritesBody(tokenData) ==
  IF addAccepted(tokenData)
    THEN saveFavorites(<<newFavorite(tokenData)>> \o favorites)
    ELSE UNCHANGED <<favorites, favStore>>

removeFromFavoritesBody(address, chainId) ==
  saveFavorites(SelectSeq(favorites, LAMBDA fav :
    ~(toLowerCase(fav["address"]) = toLowerCase(address)
        /\ fav["chainId"] = chainId)))

MountFavorites ==
  /\ favorites' = loadFavorites(<<>>, favStore)
  /\ lastOp' = Op("loadFavorites")
  /\ UNCHANGED <<now, quotaExceeded, favStore, doc, histVars, perfVars, netVars>>

AddToFavorites(tokenData) ==
  /\ addToFavoritesBody(tokenData)
  /\ lastOp' = [Op("addToFavorites") EXCEPT
                  !.address = tokenData.address,
                  !.chainId = tokenData.chainId,
                  !.ret = addAccepted(tokenData)]
  /\ UNCHANGED <<now, quotaExceeded, doc, histVars, perfVars, netVars>>

RemoveFromFavorites(address, chainId) ==
  /\ removeFromFavoritesBody(address, chainId)
  /\ lastOp' = [Op("removeFromFavorites") EXCEPT
                  !.address = address, !.chainId = chainId]
  /\ UNCHANGED <<now, quotaExceeded, doc, histVars, perfVars, netVars>>

ToggleFavorite(tokenData) ==
  /\ IF isFavorite(favorites, tokenData.address, tokenData.chainId)
       THEN removeFromFavoritesBody(tokenData.address, tokenData.chainId)
       ELSE addToFavoritesBody(tokenData)
  /\ lastOp' = [Op("toggleFavorite") EXCEPT
                  !.address = tokenData.address,
                  !.chainId = tokenData.chainId,
                  !.ret = ~isFavorite(favorites, tokenData.address,
                                      tokenData.chainId)]
  /\ UNCHANGED <<now, quotaExceeded, doc, histVars, perfVars, netVars>>

\* updateFavorite with two fields set while the entry is rebuilt
mergeUpdateTouchesAddedAt(fav, updates) ==
  [k \in DOMAIN fav \cup DOMAIN updates \cup {"lastUpdated"} |->
     IF k \in {"lastUpdated", "addedAt"} THEN now
     ELSE IF k \in DOMAIN updates THEN updates[k]
     ELSE fav[k]]

\* { ...fav, ...updates, lastUpdated: Date.now() }
mergeUpdate(fav, updates) ==
  [k \in DOMAIN fav \cup DOMAIN updates \cup {"lastUpdated"} |->
     IF k = "lastUpdated" THEN now
     ELSE IF k \in DOMAIN updates THEN updates[k]
     ELSE fav[k]]

UpdateFavorite(address, chainId, updates) ==
  /\ saveFavorites([i \in DOMAIN favorites |->
       IF /\ toLowerCase(favorites[i]["address"]) = toLowerCase(address)
          /\ favorites[i]["chainId"] = chainId
         THEN mergeUpdate(favorites[i], updates)
         ELSE favorites[i]])
  /\ lastOp' = [Op("updateFavorite") EXCEPT
                  !.address = address, !.chainId = chainId]
  /\ UNCHANGED <<now, quotaExceeded, doc, histVars, perfVars, netVars>>

ClearFavorites ==
  /\ saveFavorites(<<>>)
  /\ lastOp' = Op("clearFavorites")
  /\ UNCHANGED <<now, quotaExceeded, doc, histVars, perfVars, netVars>>

\* A JavaScript value read from data.favorites: an array, or something else
ArrayValue(items) == [type |-> "array", items |-> items]
StringValue == [type |-> "string", items |-> <<>>]
UndefinedValue == [type |-> "undefined", items |-> <<>>]
Truthy(v) == v.type \in {"array", "string"}
IsArray(v) == v.type = "array"

exportFavorites ==
  [version |-> "1.0", exportTime |-> now, favorites |-> ArrayValue(favorites)]

ExportFavorites ==
  /\ doc' = exportFavorites
  /\ lastOp' = Op("exportFavorites")
  /\ UNCHANGED <<now, quotaExceeded, favorites, favStore, histVars, perfVars, netVars>>

\* `${fav.chainId}-${fav.address.toLowerCase()}`
favKey(fav) == <<fav["chainId"], toLowerCase(fav["address"])>>

\* mergeImported with the key set built from the list after concatenation
mergeImportedKeysOfAll(existing, imported) ==
  existing \o SelectSeq(imported, LAMBDA fav :
    favKey(fav) \notin {favKey((existing \o imported)[i]) :
                          i \in DOMAIN (existing \o imported)})

\* merge mode: the imported entries whose key no existing favorite has
mergeImported(existing, imported) ==
  existing \o SelectSeq(imported, LAMBDA fav :
    favKey(fav) \notin {favKey(existing[i]) : i \in DOMAIN existing})

importValid(data) == Truthy(data.favorites) /\ IsArray(data.favorites)

importFavoritesBody(data, merge) ==
  IF ~importValid(data)
    THEN UNCHANGED <<favorites, favStore>>
    ELSE IF merge
      THEN saveFavorites(mergeImported(favorites, data.favorites.items))
      ELSE saveFavorites(data.favorites.items)

ImportFavorites(data, merge, label) ==
  /\ importFavoritesBody(data, merge)
  /\ lastOp' = [Op(label) EXCEPT !.flag = merge, !.size = Len(favorites),
                                 !.ret = importValid(data)]
  /\ UNCHANGED <<now, quotaExceeded, doc, histVars, perfVars, netVars>>

\* handleExport writes JSON.stringify(data); handleImport reads JSON.parse
viaFile(data) ==
  [data EXCEPT !.favorites =
     IF IsArray(data.favorites)
       THEN ArrayValue(StringifyArray(data.favorites.items))
       ELSE data.favorites]

Tick ==
  /\ now < MaxTime
  /\ now' = now + 1
  /\ lastOp' = Op("tick")
  /\ UNCHANGED <<quotaExceeded, favVars, histVars, perfVars, netVars>>

----------------------------------------------------------------------------
(* useSearchHistory *)

MAX_HISTORY_SIZE == 20

\* loadHistory, run by the mount effect of a hook instance whose state is cur
loadHistory(cur, stored) ==
  IF stored.kind \in {"absent", "empty"} THEN cur
  ELSE IF stored.kind = "json" THEN SortDesc(stored.items, "timestamp")
  ELSE <<>>

\* saveHistory writing the list the hook held before the change
saveHistoryStale(newHistory) ==
  IF quotaExceeded
    THEN UNCHANGED <<history, histStore>>
    ELSE /\ histStore' = JsonText(history)
         /\ history' = newHistory

\* saveHistory: setItem, then setHistory; a throwing setItem skips both
saveHistory(newHistory) ==
  IF quotaExceeded
    THEN UNCHANGED <<history, histStore>>
    ELSE /\ histStore' = JsonText(newHistory)
         /\ history' = newHistory

\* findIndex comparing with the address as it was passed in
findIndexRaw(hist, address) ==
  IF \E i \in DOMAIN hist : toLowerCase(hist[i]["address"]) = address
    THEN CHOOSE i \in DOMAIN hist :
           /\ toLowerCase(hist[i]["address"]) = address
           /\ \A j \in 1..(i - 1) : toLowerCase(hist[j]["address"]) # address
    ELSE 0

\* history.findIndex(item => item.address.toLowerCase() === normalizedAddress),
\* 0 standing for -1
findIndex(hist, address) == findIndexRaw(hist, trim(toLowerCase(address)))

\* the entry updated where it stands
moveToFrontInPlace(hist, existingIndex, tokenInfo, t) ==
  [hist EXCEPT ![existingIndex] =
     [k \in DOMAIN hist[existingIndex] \cup {"timestamp", "tokenInfo"} |->
        IF k = "timestamp" THEN t
        ELSE IF k = "tokenInfo"
          THEN IF tokenInfo # Undefined THEN tokenInfo
               ELSE Get(hist[existingIndex], "tokenInfo")
        ELSE hist[existingIndex][k]]]

\* [updatedItem, ...history.filter((_, index) => index !== existingIndex)]
moveToFront(hist, existingIndex, tokenInfo, t) ==
  <<[k \in DOMAIN hist[existingIndex] \cup {"timestamp", "tokenInfo"} |->
       IF k = "timestamp" THEN t
       ELSE IF k = "tokenInfo"
         THEN IF tokenInfo # Undefined THEN tokenInfo
              ELSE Get(hist[existingIndex], "tokenInfo")
       ELSE hist[existingIndex][k]]>>
  \o SubSeq(hist, 1, existingIndex - 1)
  \o SubSeq(hist, existingIndex + 1, Len(hist))

\* [...history, newItem]
newItemLast(hist, address, tokenInfo, t, rand) ==
  hist \o <<[id        |-> <<t, rand>>,
             address   |-> trim(toLowerCase(address)),
             timestamp |-> t,
             tokenInfo |-> tokenInfo]>>

\* [newItem, ...history]
newItemFirst(hist, address, tokenInfo, t, rand) ==
  <<[id        |-> <<t, rand>>,
     address   |-> trim(toLowerCase(address)),
     timestamp |-> t,
     tokenInfo |-> tokenInfo]>> \o hist

\* the size limit left out
limitSizeNone(newHistory) == newHistory

\* if (newHistory.length > MAX_HISTORY_SIZE) newHistory.slice(0, MAX_HISTORY_SIZE)
limitSize(newHistory) ==
  IF Len(newHistory) > MAX_HISTORY_SIZE
    THEN SliceHead(newHistory, MAX_HISTORY_SIZE)
    ELSE newHistory

\* if (!address || !address.trim()) return
addressGiven(address) == address # <<>> /\ trim(address) # <<>>

\* the list addToHistory hands to saveHistory, at time t
addToHistoryResult(hist, address, tokenInfo, t, rand) ==
  limitSize(IF findIndex(hist, address) > 0
              THEN moveToFront(hist, findIndex(hist, address), tokenInfo, t)
              ELSE newItemFirst(hist, address, tokenInfo, t, rand))

\* ghost: the addresses passed to addToHistory, most recently passed first
touch(list, address) ==
  <<trim(toLowerCase(address))>>
  \o SelectSeq(list, LAMBDA a : a # trim(toLowerCase(address)))

loadHistoryStep ==
  /\ history' = loadHistory(<<>>, histStore)
  /\ lastOp' = Op("loadHistory")
  /\ UNCHANGED <<quotaExceeded, histStore, touched, addsOnly, favVars, perfVars, netVars>>

\* addToHistory called at time t
addToHistoryStep(address, tokenInfo, rand, t) ==
  /\ IF addressGiven(address)
       THEN /\ saveHistory(addToHistoryResult(history, address, tokenInfo,
                                              t, rand))
            /\ touched' = touch(touched, address)
       ELSE UNCHANGED <<history, histStore, touched>>
  /\ lastOp' = [Op("addToHistory") EXCEPT !.address = address]
  /\ UNCHANGED <<quotaExceeded, addsOnly, favVars, perfVars, netVars>>

removeFromHistoryStep(id) ==
  /\ saveHistory(SelectSeq(history, LAMBDA item : item["id"] # id))
  /\ addsOnly' = FALSE
  /\ lastOp' = [Op("removeFromHistory") EXCEPT !.id = id]
  /\ UNCHANGED <<quotaExceeded, touched, favVars, perfVars, netVars>>

clearHistoryStep ==
  /\ saveHistory(<<>>)
  /\ addsOnly' = FALSE
  /\ lastOp' = Op("clearHistory")
  /\ UNCHANGED <<quotaExceeded, touched, favVars, perfVars, netVars>>

MountHistory == loadHistoryStep /\ UNCHANGED <<now, detours>>

AddToHistory(address, tokenInfo, rand) ==
  addToHistoryStep(address, tokenInfo, rand, now) /\ UNCHANGED <<now, detours>>

RemoveFromHistory(id) == removeFromHistoryStep(id) /\ UNCHANGED <<now, detours>>

ClearHistory == clearHistoryStep /\ UNCHANGED <<now, detours>>

\* the characters of the symbols and names in use
Chars(string) ==
  CASE string = "FOO" -> <<"F", "O", "O">>
    [] string = "BAR" -> <<"B", "A", "R">>
    [] string = "slow-" -> <<"s", "l", "o", "w", "-">>
    [] string = "c-render-duration" ->
         <<"c", "-", "r", "e", "n", "d", "e", "r", "-",
           "d", "u", "r", "a", "t", "i", "o", "n">>
    [] string = "c-slow-render" ->
         <<"c", "-", "s", "l", "o", "w", "-", "r", "e", "n", "d", "e", "r">>
    [] string = "interaction-i" ->
         <<"i", "n", "t", "e", "r", "a", "c", "t", "i", "o", "n", "-", "i">>
    [] string = "slow-interaction-i" ->
         <<"s", "l", "o", "w", "-",
           "i", "n", "t", "e", "r", "a", "c", "t", "i", "o", "n", "-", "i">>
    [] string = "network-r" ->
         <<"n", "e", "t", "w", "o", "r", "k", "-", "r">>
    [] string = "network-r-success" ->
         <<"n", "e", "t", "w", "o", "r", "k", "-", "r", "-",
           "s", "u", "c", "c", "e", "s", "s">>
    [] string = "network-r-error" ->
         <<"n", "e", "t", "w", "o", "r", "k", "-", "r", "-",
           "e", "r", "r", "o", "r">>
    [] string = "slow-network-r" ->
         <<"s", "l", "o", "w", "-",
           "n", "e", "t", "w", "o", "r", "k", "-", "r">>
    [] string = "error-unknown" ->
         <<"e", "r", "r", "o", "r", "-", "u", "n", "k", "n", "o", "w", "n">>
    [] string = "cache-hit-rate" ->
         <<"c", "a", "c", "h", "e", "-", "h", "i", "t", "-", "r", "a", "t", "e">>
    [] string = "cache-hit" ->
         <<"c", "a", "c", "h", "e", "-", "h", "i", "t">>
    [] string = "cache-miss" ->
         <<"c", "a", "c", "h", "e", "-", "m", "i", "s", "s">>
    [] string = "token-query-duration" ->
         <<"t", "o", "k", "e", "n", "-", "q", "u", "e", "r", "y", "-",
           "d", "u", "r", "a", "t", "i", "o", "n">>
    [] string = "token-query" ->
         <<"t", "o", "k", "e", "n", "-", "q", "u", "e", "r", "y">>
    [] string = "render-duration" ->
         <<"r", "e", "n", "d", "e", "r", "-",
           "d", "u", "r", "a", "t", "i", "o", "n">>

\* String.prototype.includes
includes(string, part) ==
  \E i \in 0..(Len(string) - Len(part)) :
    SubSeq(string, i + 1, i + Len(part)) = part

\* item.tokenInfo?.<field>?.toLowerCase().includes(lowerKeyword), as a condition
tokenInfoIncludes(item, field, lowerKeyword) ==
  /\ Get(item, "tokenInfo") # Undefined
  /\ Get(item["tokenInfo"][1], field) # Undefined
  /\ includes(toLowerCase(Chars(item["tokenInfo"][1][field][1])), lowerKeyword)

searchHistory(hist, keyword) ==
  IF trim(keyword) = <<>>
    THEN hist
    ELSE SelectSeq(hist, LAMBDA item :
           \/ includes(toLowerCase(item["address"]), toLowerCase(keyword))
           \/ tokenInfoIncludes(item, "symbol", toLowerCase(keyword))
           \/ tokenInfoIncludes(item, "name", toLowerCase(keyword)))

\* getRecentHistory(count) for a count that is not negative
getRecentHistory(hist, count) == SliceHead(hist, count)

----------------------------------------------------------------------------
(* usePerformanceMonitor *)

MaxEvents == 100
KeepEvents == 50

\* A PerformanceEvent: url and userAgent are the same in every event and are
\* left out; seq is a ghost field, the event's number since the last clearData
performanceEvent(event, seq) ==
  [type |-> event.type, name |-> event.name, value |-> event.value,
   timestamp |-> now, seq |-> seq]

\* the truncation keeping the oldest events
recordEventKeepOldest(buffer, event, seq) ==
  IF Len(buffer) + 1 > MaxEvents
    THEN SliceHead(Append(buffer, performanceEvent(event, seq)), KeepEvents)
    ELSE Append(buffer, performanceEvent(event, seq))

\* recordEvent: push, then slice(-50) once the length is over 100
recordEvent(buffer, event, seq) ==
  IF Len(buffer) + 1 > MaxEvents
    THEN SliceTail(Append(buffer, performanceEvent(event, seq)), KeepEvents)
    ELSE Append(buffer, performanceEvent(event, seq))

\* several recordEvent calls of one handler, in their order
RECURSIVE recordEvents(_, _, _)
recordEvents(buffer, list, seq) ==
  IF list = <<>> THEN buffer
  ELSE recordEvents(recordEvent(buffer, Head(list), seq + 1), Tail(list), seq + 1)

RECURSIVE GCD(_, _)
GCD(a, b) == IF b = 0 THEN a ELSE GCD(b, a % b)

\* the quotient a / b of two numbers, b > 0, as a fraction in lowest terms
Quotient(a, b) == <<a \div GCD(a, b), b \div GCD(a, b)>>
Zero == <<0, 1>>

\* metricsRef.current.cacheStats || { hits: 0, total: 0 }
cacheStatsOf(m) ==
  IF "cacheStats" \in DOMAIN m THEN m["cacheStats"] ELSE [hits |-> 0, total |-> 0]

\* the statistics counting every call as a hit
updatedStatsAlwaysHit(m, hit) ==
  [hits |-> cacheStatsOf(m).hits + 1, total |-> cacheStatsOf(m).total + 1]

\* cacheStats.total += 1; if (hit) cacheStats.hits += 1
updatedStats(m, hit) ==
  [hits  |-> cacheStatsOf(m).hits + (IF hit THEN 1 ELSE 0),
   total |-> cacheStatsOf(m).total + 1]

\* cacheStats.total > 0 ? cacheStats.hits / cacheStats.total : 0
newRate(stats) ==
  IF stats.total > 0 THEN Quotient(stats.hits, stats.total) ELSE Zero

recordCacheHitStep(hit) ==
  /\ metrics' = [k \in DOMAIN metrics \cup {"cacheHitRate", "cacheStats"} |->
                   IF k = "cacheHitRate" THEN newRate(updatedStats(metrics, hit))
                   ELSE IF k = "cacheStats" THEN updatedStats(metrics, hit)
                   ELSE metrics[k]]
  /\ events' = recordEvents(events,
       <<[type |-> "custom", name |-> "cache-hit-rate",
          value |-> newRate(updatedStats(metrics, hit))],
         [type |-> "custom",
          name |-> IF hit THEN "cache-hit" ELSE "cache-miss", value |-> 1]>>,
       appended)
  /\ appended' = appended + 2
  /\ calls' = calls + 1
  /\ trues' = trues + (IF hit THEN 1 ELSE 0)
  /\ lastOp' = [Op("recordCacheHit") EXCEPT !.flag = hit]
  /\ UNCHANGED <<now, quotaExceeded, favVars, netVars, history, histStore, touched,
                 addsOnly>>

\* recordError(error) without a context
recordErrorStep ==
  /\ events' = recordEvents(events,
       <<[type |-> "error", name |-> "error-unknown", value |-> 1]>>, appended)
  /\ appended' = appended + 1
  /\ lastOp' = Op("recordError")
  /\ UNCHANGED <<now, quotaExceeded, favVars, netVars, history, histStore, touched,
                 addsOnly, metrics, calls, trues>>

\* end() of a measureRender(componentName) handle after duration milliseconds
measureRenderEndStep(duration) ==
  /\ events' = recordEvents(events,
       IF duration > 100
         THEN <<[type |-> "custom", name |-> "c-render-duration",
                 value |-> duration],
                [type |-> "custom", name |-> "c-slow-render",
                 value |-> duration]>>
         ELSE <<[type |-> "custom", name |-> "c-render-duration",
                 value |-> duration]>>,
       appended)
  /\ appended' = appended + (IF duration > 100 THEN 2 ELSE 1)
  /\ metrics' = [k \in DOMAIN metrics \cup {"renderTime"} |->
                   IF k = "renderTime" THEN duration ELSE metrics[k]]
  /\ lastOp' = [Op("measureRender.end") EXCEPT !.size = duration]
  /\ UNCHANGED <<now, quotaExceeded, favVars, netVars, history, histStore, touched,
                 addsOnly, calls, trues>>

\* the threshold of measureInteraction compared with >=
interactionIsSlowFromThreshold(duration) == duration >= 200

\* duration > 200
interactionIsSlow(duration) == duration > 200

\* end() of a measureInteraction(interactionName) handle
measureInteractionEndStep(duration) ==
  /\ events' = recordEvents(events,
       IF interactionIsSlow(duration)
         THEN <<[type |-> "custom", name |-> "interaction-i",
                 value |-> duration],
                [type |-> "custom", name |-> "slow-interaction-i",
                 value |-> duration]>>
         ELSE <<[type |-> "custom", name |-> "interaction-i",
                 value |-> duration]>>,
       appended)
  /\ appended' = appended + (IF interactionIsSlow(duration) THEN 2 ELSE 1)
  /\ lastOp' = [Op("measureInteraction.end") EXCEPT !.size = duration]
  /\ UNCHANGED <<now, quotaExceeded, favVars, netVars, history, histStore,
                 touched, addsOnly, metrics, calls, trues>>

\* end(success) of a measureNetworkRequest(requestName) handle
measureNetworkRequestEndStep(duration, success) ==
  /\ events' = recordEvents(events,
       <<[type |-> "custom", name |-> "network-r", value |-> duration],
         [type |-> "custom",
          name |-> IF success THEN "network-r-success" ELSE "network-r-error",
          value |-> 1]>>
       \o (IF duration > 3000
             THEN <<[type |-> "custom", name |-> "slow-network-r",
                     value |-> duration]>>
             ELSE <<>>),
       appended)
  /\ appended' = appended + (IF duration > 3000 THEN 3 ELSE 2)
  /\ lastOp' = [Op("measureNetworkRequest.end") EXCEPT !.size = duration,
                                                       !.flag = success]
  /\ UNCHANGED <<now, quotaExceeded, favVars, netVars, history, histStore,
                 touched, addsOnly, metrics, calls, trues>>

\* end() of a measureTokenQuery() handle after duration milliseconds
measureTokenQueryEndStep(duration) ==
  /\ metrics' = [k \in DOMAIN metrics \cup {"queryTime"} |->
                   IF k = "queryTime" THEN duration ELSE metrics[k]]
  /\ events' = recordEvents(events,
       <<[type |-> "custom", name |-> "token-query-duration",
          value |-> duration]>>, appended)
  /\ appended' = appended + 1
  /\ lastOp' = [Op("measureTokenQuery.end") EXCEPT !.size = duration]
  /\ UNCHANGED <<now, quotaExceeded, favVars, netVars, history, histStore,
                 touched, addsOnly, calls, trues>>

\* metricsRef.current = {}
clearedMetrics == <<>>

clearDataStep ==
  /\ metrics' = clearedMetrics
  /\ events' = <<>>
  /\ appended' = 0
  /\ calls' = 0
  /\ trues' = 0
  /\ lastOp' = Op("clearData")
  /\ UNCHANGED <<now, quotaExceeded, favVars, netVars, history, histStore, touched,
                 addsOnly>>

\* getPerformanceSummary().cacheHitRate: metricsRef.current.cacheHitRate || 0
summaryCacheHitRate ==
  IF Get(metrics, "cacheHitRate") \in {Undefined, Zero}
    THEN Zero
    ELSE metrics["cacheHitRate"]

\* events.filter(e => e.name.includes(part))
namedEvents(evs, part) ==
  SelectSeq(evs, LAMBDA e : includes(Chars(e.name), Chars(part)))

\* reduce((sum, e) => sum + e.value, 0)
RECURSIVE sumOfValues(_)
sumOfValues(evs) ==
  IF evs = <<>> THEN 0 ELSE Head(evs).value + sumOfValues(Tail(evs))

\* the mean of the values, 0 when there is none
average(evs) ==
  IF Len(evs) > 0 THEN Quotient(sumOfValues(evs), Len(evs)) ELSE Zero

\* getPerformanceSummary with the query time of the last measurement
summaryLastQueryTime(evs, m) ==
  [totalEvents      |-> Len(evs),
   errorCount       |-> Len(SelectSeq(evs, LAMBDA e : e.type = "error")),
   averageQueryTime |-> IF "queryTime" \in DOMAIN m
                          THEN Quotient(m["queryTime"], 1) ELSE Zero,
   averageRenderTime |-> average(namedEvents(evs, "render-duration")),
   cacheHitRate     |-> IF Get(m, "cacheHitRate") \in {Undefined, Zero}
                          THEN Zero ELSE m["cacheHitRate"],
   slowInteractions |-> Len(namedEvents(evs, "slow-"))]

\* getPerformanceSummary of a monitor whose refs hold evs and m
getPerformanceSummary(evs, m) ==
  [totalEvents      |-> Len(evs),
   errorCount       |-> Len(SelectSeq(evs, LAMBDA e : e.type = "error")),
   averageQueryTime |-> average(namedEvents(evs, "token-query")),
   averageRenderTime |-> average(namedEvents(evs, "render-duration")),
   cacheHitRate     |-> IF Get(m, "cacheHitRate") \in {Undefined, Zero}
                          THEN Zero ELSE m["cacheHitRate"],
   slowInteractions |-> Len(namedEvents(evs, "slow-"))]

----------------------------------------------------------------------------
(* tokenQueryKeys, useTokenQuery, useCachedTokenInfo and the query form *)

\* An address has 40 hexadecimal digits after "0x"; the model keeps the shape
\* with AddressLength characters in all.
AddressLength == 3

HexDigit == {"0", "1", "a", "b", "A", "B"}

\* isAddress (viem), as far as the shape of the text goes
isAddress(text) ==
  /\ Len(text) = AddressLength
  /\ text[1] = "0"
  /\ text[2] = "x"
  /\ \A i \in 3..Len(text) : text[i] \in HexDigit

\* what the query form and the query hooks leave alone
otherThanQuery ==
  <<now, quotaExceeded, favVars, histVars, perfVars, priceVars, viewVars>>

\* the query key factory
tokenQueryKeysAll == <<"tokens">>
tokenQueryKeysDetails == tokenQueryKeysAll \o <<"detail">>
tokenQueryKeysDetail(address, chainId) ==
  tokenQueryKeysDetails \o <<address, chainId>>
tokenQueryKeysInfo(address, chainId, property) ==
  tokenQueryKeysDetail(address, chainId) \o <<property>>

\* chain?.id || 1
currentChainId == IF chain = Undefined \/ chain[1] = 0 THEN 1 ELSE chain[1]

\* validateAddress accepting every text that is not empty
validateAddressNotEmpty(address) == address # <<>>

validateAddress(address) == address # <<>> /\ isAddress(address)

\* the message handleQuery leaves in error, null when the query goes ahead
handleQueryError ==
  IF trim(contractAddress) = <<>> THEN Some("enter an address")
  ELSE IF ~validateAddress(contractAddress) THEN Some("not an address")
  ELSE IF ~isConnected THEN Some("connect the wallet")
  ELSE Null

HandleQuery ==
  /\ error' = handleQueryError
  /\ queryAddress' =
       IF handleQueryError = Null THEN Some(contractAddress) ELSE queryAddress
  /\ UNCHANGED otherThanQuery
  /\ lastOp' = [Op("handleQuery") EXCEPT !.address = contractAddress,
                                         !.ret = (handleQueryError = Null)]
  /\ UNCHANGED <<contractAddress, isConnected, chain, reads, queryCalls>>

HandleInputChange(value) ==
  /\ contractAddress' = value
  /\ error' = Null
  /\ queryAddress' = IF trim(value) = <<>> THEN Null ELSE queryAddress
  /\ UNCHANGED otherThanQuery
  /\ lastOp' = [Op("handleInputChange") EXCEPT !.address = value]
  /\ UNCHANGED <<isConnected, chain, reads, queryCalls>>

\* handleSelectFromHistory and handleSelectToken: the input takes the address
HandleSelectToken(address) ==
  /\ contractAddress' = address
  /\ UNCHANGED otherThanQuery
  /\ lastOp' = [Op("handleSelectToken") EXCEPT !.address = address]
  /\ UNCHANGED <<queryAddress, error, isConnected, chain, reads, queryCalls>>

\* the wallet connects to a chain, or disconnects
AccountChanged(connected, id) ==
  /\ isConnected' = connected
  /\ chain' = IF connected THEN Some(id) ELSE Undefined
  /\ UNCHANGED otherThanQuery
  /\ lastOp' = [Op("accountChanged") EXCEPT !.chainId = id]
  /\ UNCHANGED <<contractAddress, queryAddress, error, reads, queryCalls>>

\* enabled: !!isValidAddress && isConnected, of the four contract reads
readEnabled ==
  /\ queryAddress # Null
  /\ queryAddress[1] # <<>>
  /\ isAddress(queryAddress[1])
  /\ isConnected

\* useTokenQuery(queryAddress) rendered with its reads enabled
ReadContract ==
  /\ readEnabled
  /\ reads' = reads \cup {queryAddress[1]}
  /\ UNCHANGED otherThanQuery
  /\ lastOp' = [Op("useReadContract") EXCEPT !.address = queryAddress[1]]
  /\ UNCHANGED <<contractAddress, queryAddress, error, isConnected, chain,
                 queryCalls>>

\* the data of the four reads while nothing has been read
NoData ==
  [symbol |-> Undefined, name |-> Undefined, decimals |-> Undefined,
   totalSupply |-> Undefined]

\* a text that is neither undefined nor empty
truthyText(data) == data # Undefined /\ data[1] # ""

\* symbolData && totalSupplyData !== undefined && decimalsData !== undefined
hasTokenInfo(reading) ==
  /\ truthyText(reading.data.symbol)
  /\ reading.data.totalSupply # Undefined
  /\ reading.data.decimals # Undefined

\* the state a render of TokenQueryContent shows
currentView(reading) ==
  <<contractAddress, queryAddress, error, isConnected, chain, reading>>

\* a state was set since the last render
renderPending ==
  renderedView # Some(currentView(tokenReads)) \/ historyChanged

\* the reads of this render: those of a newly enabled address start loading
readsOfRender ==
  IF readEnabled /\ tokenReads.address # queryAddress
    THEN [address |-> queryAddress, loading |-> TRUE, data |-> NoData]
    ELSE tokenReads

\* [hasTokenInfo, queryAddress, symbolData, nameData] of a rendered view
effectDeps(view) ==
  <<hasTokenInfo(view[6]), view[2], view[6].data.symbol, view[6].data.name>>

\* the add-to-history effect runs after the first render, after a render with
\* other values in its dependencies, and after a render with another
\* addToHistory, which is a new callback whenever the history was set
historyEffectRuns(reading) ==
  \/ renderedView = Undefined
  \/ effectDeps(renderedView[1]) # effectDeps(currentView(reading))
  \/ historyChanged

\* if (hasTokenInfo && queryAddress && symbolData && nameData)
historyEffectAdds(reading) ==
  /\ hasTokenInfo(reading)
  /\ queryAddress # Null /\ queryAddress[1] # <<>>
  /\ truthyText(reading.data.symbol)
  /\ truthyText(reading.data.name)

\* one render of TokenQueryContent and the effects that run after it: the
\* effect of useTokenQuery ending its measurement, and the add-to-history
\* effect. The ghost appended counts up to MaxAppended and stays there.
Render(rand) ==
  /\ renderPending
  /\ tokenReads' = readsOfRender
  /\ reads' = IF readEnabled /\ tokenReads.address # queryAddress
                THEN reads \cup {queryAddress[1]} ELSE reads
  /\ renderedView' = Some(currentView(readsOfRender))
  /\ IF ~readsOfRender.loading
       THEN /\ events' = recordEvents(events,
                 <<[type |-> "custom", name |-> "token-query-duration",
                    value |-> 0]>>, Min(appended, MaxAppended - 1))
            /\ appended' = Min(appended + 1, MaxAppended)
            /\ metrics' = [k \in DOMAIN metrics \cup {"queryTime"} |->
                             IF k = "queryTime" THEN 0 ELSE metrics[k]]
       ELSE UNCHANGED <<events, appended, metrics>>
  /\ IF /\ historyEffectRuns(readsOfRender)
        /\ historyEffectAdds(readsOfRender)
        /\ addressGiven(queryAddress[1])
       THEN /\ saveHistory(addToHistoryResult(history, queryAddress[1],
                 Some([symbol |-> readsOfRender.data.symbol,
                       name |-> readsOfRender.data.name]), now, rand))
            /\ touched' = touch(touched, queryAddress[1])
            /\ historyChanged' = ~quotaExceeded
       ELSE /\ UNCHANGED <<history, histStore, touched>>
            /\ historyChanged' = FALSE
  /\ lastOp' = [Op("render") EXCEPT
                  !.flag = historyEffectRuns(readsOfRender)
                             /\ historyEffectAdds(readsOfRender),
                  !.ret = ~readsOfRender.loading]
  /\ UNCHANGED <<now, quotaExceeded, favVars, detours, addsOnly, calls, trues,
                 contractAddress, queryAddress, error, isConnected, chain,
                 queryCalls, priceVars, panelHistory, otherMonitor, priceCall,
                 settledQueries>>

\* the four reads have settled with data, or without the data of those that
\* failed
ReadsSettle(data) ==
  /\ tokenReads.loading
  /\ tokenReads' = [tokenReads EXCEPT !.loading = FALSE, !.data = data]
  /\ settledQueries' = settledQueries + 1
  /\ lastOp' = Op("readsSettle")
  /\ UNCHANGED <<now, quotaExceeded, favVars, histVars, perfVars, queryVars,
                 priceVars, panelHistory, otherMonitor, priceCall,
                 renderedView, historyChanged>>

QueryCall(method, queryKey) == [method |-> method, queryKey |-> queryKey]

\* invalidateCache of useTokenQuery(queryAddress)
InvalidateCache ==
  /\ queryCalls' =
       IF queryAddress # Null /\ queryAddress[1] # <<>> /\ currentChainId # 0
         THEN Append(queryCalls,
                QueryCall("invalidateQueries",
                          tokenQueryKeysDetail(queryAddress[1], currentChainId)))
         ELSE queryCalls
  /\ UNCHANGED otherThanQuery
  /\ lastOp' = Op("invalidateCache")
  /\ UNCHANGED <<contractAddress, queryAddress, error, isConnected, chain,
                 reads>>

PrefetchTokenInfo(tokenAddress) ==
  /\ queryCalls' =
       IF isAddress(tokenAddress) /\ currentChainId # 0
         THEN Append(queryCalls,
                QueryCall("prefetchQuery",
                          tokenQueryKeysInfo(tokenAddress, currentChainId, "symbol")))
         ELSE queryCalls
  /\ UNCHANGED otherThanQuery
  /\ lastOp' = [Op("prefetchTokenInfo") EXCEPT !.address = tokenAddress]
  /\ UNCHANGED <<contractAddress, queryAddress, error, isConnected, chain,
                 reads>>

\* useCachedTokenInfo(address, id): one lookup per property
getCachedData(address, id, property) ==
  QueryCall("getQueryData", tokenQueryKeysInfo(address, id, property))

UseCachedTokenInfo(address, id) ==
  /\ queryCalls' = queryCalls \o
       << getCachedData(address, id, "symbol"),
          getCachedData(address, id, "name"),
          getCachedData(address, id, "decimals"),
          getCachedData(address, id, "totalSupply") >>
  /\ UNCHANGED otherThanQuery
  /\ lastOp' = [Op("useCachedTokenInfo") EXCEPT !.address = address,
                                                !.chainId = id]
  /\ UNCHANGED <<contractAddress, queryAddress, error, isConnected, chain,
                 reads>>

----------------------------------------------------------------------------
(* price-service: the request interceptor of apiClient *)

MIN_REQUEST_INTERVAL == 1000

\* the requests apiClient.get is called for
Requests == 1..NumRequests

Idle == [pc |-> "idle", wake |-> 0]

\* Date.now() as the price service reads it
DateNow == LoadTime + now

otherThanPrice ==
  <<quotaExceeded, favVars, histVars, perfVars, queryVars, viewVars>>

\* the interceptor up to its await, or to its end when it does not wait
InterceptRequest(r) ==
  /\ pending[r].pc = "idle"
  /\ Len(sent) + Cardinality({q \in Requests : pending[q].pc = "waiting"})
       < MaxSent
  /\ LET timeSinceLastRequest == DateNow - lastRequestTime IN
       IF timeSinceLastRequest < MIN_REQUEST_INTERVAL
         THEN /\ pending' = [pending EXCEPT ![r] =
                   [pc |-> "waiting",
                    wake |-> DateNow
                               + (MIN_REQUEST_INTERVAL - timeSinceLastRequest)]]
              /\ UNCHANGED <<lastRequestTime, sent>>
         ELSE /\ lastRequestTime' = DateNow
              /\ sent' = Append(sent, DateNow)
              /\ pending' = [pending EXCEPT ![r] = [pc |-> "sent", wake |-> 0]]
  /\ lastOp' = [Op("interceptRequest") EXCEPT !.size = r]
  /\ UNCHANGED <<now, otherThanPrice>>

\* the timer of a waiting request has fired: the rest of the interceptor
ResumeRequest(r) ==
  /\ pending[r].pc = "waiting"
  /\ DateNow >= pending[r].wake
  /\ lastRequestTime' = DateNow
  /\ sent' = Append(sent, DateNow)
  /\ pending' = [pending EXCEPT ![r] = [pc |-> "sent", wake |-> 0]]
  /\ lastOp' = [Op("resumeRequest") EXCEPT !.size = r]
  /\ UNCHANGED <<now, otherThanPrice>>

\* the response has arrived: the caller may ask again
CompleteRequest(r) ==
  /\ pending[r].pc = "sent"
  /\ pending' = [pending EXCEPT ![r] = Idle]
  /\ lastOp' = [Op("completeRequest") EXCEPT !.size = r]
  /\ UNCHANGED <<now, lastRequestTime, sent, otherThanPrice>>

\* JavaScript values of a response body and of a result; Thrown is the
\* exception a statement has thrown
NullValue == [type |-> "null", items |-> <<>>]
NumberValue(n) == [type |-> "number", items |-> <<n>>]
TextValue(chars) == [type |-> "string", items |-> chars]
ObjectValue(fields) == [type |-> "object", items |-> fields]
Thrown == [type |-> "thrown", items |-> <<>>]

ToBoolean(v) ==
  CASE v.type \in {"null", "undefined", "thrown"} -> FALSE
    [] v.type = "number" -> v.items[1] # 0
    [] v.type = "string" -> Len(v.items) > 0
    [] OTHER -> TRUE

\* v.k or v[k] for a property name k: a TypeError on null and undefined
member(v, k) ==
  CASE v.type = "thrown" -> Thrown
    [] v.type \in {"null", "undefined"} -> Thrown
    [] v.type = "object" ->
         IF k \in DOMAIN v.items THEN v.items[k] ELSE UndefinedValue
    [] OTHER -> UndefinedValue

\* v?.k
optionalMember(v, k) ==
  IF v.type \in {"null", "undefined"} THEN UndefinedValue ELSE member(v, k)

\* v[i] for an index i, counted from 0
element(v, i) ==
  CASE v.type = "thrown" -> Thrown
    [] v.type \in {"null", "undefined"} -> Thrown
    [] v.type = "array" ->
         IF i < Len(v.items) THEN v.items[i + 1] ELSE UndefinedValue
    [] v.type = "string" ->
         IF i < Len(v.items) THEN TextValue(<<v.items[i + 1]>>)
         ELSE UndefinedValue
    [] OTHER -> UndefinedValue

\* a || b
orElse(a, b) ==
  IF a.type = "thrown" THEN Thrown ELSE IF ToBoolean(a) THEN a ELSE b

\* an object literal: the exception of a field's expression leaves it
literal(fields) ==
  IF \E k \in DOMAIN fields : fields[k].type = "thrown"
    THEN Thrown ELSE ObjectValue(fields)

\* an array built by map: the exception of a callback leaves it
mapped(results) ==
  IF \E i \in DOMAIN results : results[i].type = "thrown"
    THEN Thrown ELSE ArrayValue(results)

\* try { ... } catch (error) { console.error(...); return fallback }
tryCatch(result, fallback) ==
  IF result.type = "thrown" THEN fallback ELSE result

\* what axios makes of a request: a response with a status, or no response
Timeout == [kind |-> "timeout", status |-> 0, data |-> NullValue]
Response(status, data) == [kind |-> "response", status |-> status, data |-> data]

\* await apiClient.get(...): the body of a 2xx response; anything else is
\* rejected by axios, and once more by the response interceptor
get(outcome) ==
  IF outcome.kind = "response" /\ outcome.status >= 200 /\ outcome.status < 300
    THEN outcome.data
    ELSE Thrown

PriceKeys ==
  {"id", "symbol", "name", "current_price", "price_change_24h",
   "price_change_percentage_24h", "market_cap", "market_cap_rank",
   "total_volume", "high_24h", "low_24h", "last_updated"}

DetailKeys == {"id", "symbol", "name"}

\* contractAddress.toLowerCase() of the addresses asked for
toLowerCaseText(text) == CASE text = "0xA" -> "0xa" [] OTHER -> text

\* new Date(v * 1000).toISOString(): a RangeError unless v * 1000 is a number
toISOString(v) ==
  CASE v.type = "thrown" -> Thrown
    [] v.type = "number" -> TextValue(<<"iso", v.items[1]>>)
    [] v.type = "null" -> TextValue(<<"iso", 0>>)
    [] OTHER -> Thrown

getTokenDetailsByContract(contract, outcome) ==
  [gets  |-> 1,
   value |-> tryCatch(
     LET data == get(outcome)
     IN literal([k \in DetailKeys |-> member(data, k)]),
     NullValue)]

\* getTokenPriceByContract with currency 'usd'
getTokenPriceByContract(contract, outcome, detailOutcome) ==
  LET response == get(outcome)
      data == member(response, toLowerCaseText(contract))
      detailResponse ==
        getTokenDetailsByContract(contract, detailOutcome).value
  IN IF response.type = "thrown" \/ data.type = "thrown"
       THEN [gets |-> 1, value |-> NullValue]
     ELSE IF ~ToBoolean(data)
       THEN [gets |-> 1, value |-> NullValue]
     ELSE
       [gets  |-> 2,
        value |-> tryCatch(
          literal(
            [id |-> orElse(optionalMember(detailResponse, "id"),
                           TextValue(<<contract>>)),
             symbol |-> orElse(optionalMember(detailResponse, "symbol"),
                               TextValue(<<"UNKNOWN">>)),
             name |-> orElse(optionalMember(detailResponse, "name"),
                             TextValue(<<"Unknown Token">>)),
             current_price |-> orElse(member(data, "usd"), NumberValue(0)),
             price_change_24h |->
               orElse(member(data, "usd_24h_change"), NumberValue(0)),
             price_change_percentage_24h |->
               orElse(member(data, "usd_24h_change"), NumberValue(0)),
             market_cap |->
               orElse(member(data, "usd_market_cap"), NumberValue(0)),
             market_cap_rank |-> NumberValue(0),
             total_volume |->
               orElse(member(data, "usd_24h_vol"), NumberValue(0)),
             high_24h |-> NumberValue(0),
             low_24h |-> NumberValue(0),
             last_updated |-> toISOString(member(data, "last_updated_at"))]),
          NullValue)]

\* { id: coin.id, symbol: coin.symbol, ... } with the twelve keys of TokenPrice
tokenPriceOf(coin) == literal([k \in PriceKeys |-> member(coin, k)])

getTokenPriceById(outcome) ==
  [gets  |-> 1,
   value |-> tryCatch(
     LET data == element(get(outcome), 0)
     IN IF data.type = "thrown" THEN Thrown
        ELSE IF ~ToBoolean(data) THEN NullValue
        ELSE tokenPriceOf(data),
     NullValue)]

\* ([timestamp, price]) => ({ timestamp, price }): the parameter is iterated
pricePointOf(point) ==
  IF point.type \in {"array", "string"}
    THEN literal([timestamp |-> element(point, 0), price |-> element(point, 1)])
    ELSE Thrown

getTokenHistoricalPrices(outcome) ==
  [gets  |-> 1,
   value |-> tryCatch(
     LET prices == orElse(member(get(outcome), "prices"), ArrayValue(<<>>))
     IN IF prices.type = "array"
          THEN mapped([i \in DOMAIN prices.items |->
                         pricePointOf(prices.items[i])])
          ELSE Thrown,
     ArrayValue(<<>>))]

searchTokens(outcome) ==
  [gets  |-> 1,
   value |-> tryCatch(
     LET coins == orElse(member(get(outcome), "coins"), ArrayValue(<<>>))
     IN IF coins.type = "array"
          THEN mapped([i \in 1..Min(Len(coins.items), 10) |->
                         literal([k \in DetailKeys |->
                                    member(coins.items[i], k)])])
          ELSE Thrown,
     ArrayValue(<<>>))]

getTrendingTokens(outcome) ==
  [gets  |-> 1,
   value |-> tryCatch(
     LET data == get(outcome)
     IN IF data.type = "array"
          THEN mapped([i \in DOMAIN data.items |-> tokenPriceOf(data.items[i])])
          ELSE Thrown,
     ArrayValue(<<>>))]

PriceFunctions ==
  {"getTokenPriceByContract", "getTokenPriceById", "getTokenHistoricalPrices",
   "getTokenDetailsByContract", "searchTokens", "getTrendingTokens"}

callOf(fn, contract, outcome, detailOutcome) ==
  CASE fn = "getTokenPriceByContract" ->
         getTokenPriceByContract(contract, outcome, detailOutcome)
    [] fn = "getTokenPriceById" -> getTokenPriceById(outcome)
    [] fn = "getTokenHistoricalPrices" -> getTokenHistoricalPrices(outcome)
    [] fn = "getTokenDetailsByContract" ->
         getTokenDetailsByContract(contract, outcome)
    [] fn = "searchTokens" -> searchTokens(outcome)
    [] fn = "getTrendingTokens" -> getTrendingTokens(outcome)

\* the time at which the request interceptor lets a request through that
\* reaches it at time t
leaves(t, last) ==
  IF t - last < MIN_REQUEST_INTERVAL THEN last + MIN_REQUEST_INTERVAL ELSE t

\* one call of a function of the service, from its call to its settling, with
\* no other request under way: its requests pass the interceptor one after
\* the other and are answered by outcome and detailOutcome
CallPriceService(fn, contract, outcome, detailOutcome) ==
  LET result == callOf(fn, contract, outcome, detailOutcome)
      first == leaves(DateNow, lastRequestTime)
      second == leaves(first, first)
  IN /\ Len(sent) + result.gets <= MaxSent
     /\ (IF result.gets = 2 THEN second ELSE first) - LoadTime <= MaxClock
     /\ priceCall' = [fn |-> fn,
                      outcomes |-> IF result.gets = 2
                                     THEN <<outcome, detailOutcome>>
                                     ELSE <<outcome>>,
                      gets |-> result.gets,
                      value |-> result.value]
     /\ sent' = IF result.gets = 2 THEN sent \o <<first, second>>
                ELSE Append(sent, first)
     /\ lastRequestTime' = IF result.gets = 2 THEN second ELSE first
     /\ now' = (IF result.gets = 2 THEN second ELSE first) - LoadTime
     /\ lastOp' = Op(fn)
     /\ UNCHANGED <<pending, quotaExceeded, favVars, histVars, perfVars,
                    queryVars, panelHistory, otherMonitor, effectVars>>

\* time passes
AdvanceClock ==
  /\ now + ClockStep <= MaxClock
  /\ now' = now + ClockStep
  /\ lastOp' = Op("advanceClock")
  /\ UNCHANGED <<priceVars, otherThanPrice>>

----------------------------------------------------------------------------
(* The initial state: a first visit, nothing stored, every component        *)
(* constructed, the effects of the first render still to run               *)

Init ==
  /\ now = 0
  /\ quotaExceeded = FALSE
  /\ favorites = <<>>
  /\ favStore = Absent
  /\ doc = [version |-> "1.0", exportTime |-> 0, favorites |-> ArrayValue(<<>>)]
  /\ history = <<>>
  /\ histStore = Absent
  /\ detours = 0
  /\ touched = <<>>
  /\ addsOnly = TRUE
  /\ events = <<>>
  /\ metrics = <<>>
  /\ appended = 0
  /\ calls = 0
  /\ trues = 0
  /\ contractAddress = <<>>
  /\ queryAddress = Null
  /\ error = Null
  /\ isConnected = FALSE
  /\ chain = Undefined
  /\ reads = {}
  /\ queryCalls = <<>>
  /\ lastRequestTime = 0
  /\ pending = [r \in Requests |-> Idle]
  /\ sent = <<>>
  /\ panelHistory = <<>>
  /\ otherMonitor = [events |-> <<>>, metrics |-> <<>>, appended |-> 0,
                     calls |-> 0, trues |-> 0]
  /\ priceCall = [fn |-> "none", outcomes |-> <<>>, gets |-> 0,
                  value |-> UndefinedValue]
  /\ tokenReads = [address |-> Null, loading |-> FALSE, data |-> NoData]
  /\ renderedView = Undefined
  /\ historyChanged = FALSE
  /\ settledQueries = 0
  /\ lastOp = Op("init")

----------------------------------------------------------------------------
(* The favorites store driven by its callers *)

TokenData(address, chainId) ==
  [address |-> address, chainId |-> chainId, symbol |-> Some("FOO"),
   name |-> Undefined, decimals |-> Some(18), tags |-> <<>>,
   note |-> Undefined]

\* (address, chainId) arguments: two spellings of one address, two chains
FavPairs ==
  {<< <<"a">>, 1 >>, << <<"A">>, 1 >>, << <<"a">>, 137 >>, << <<"b">>, 1 >>}

\* tokenData arguments, with a missing address and a missing chain id
TokenInputs ==
  {TokenData(p[1], p[2]) : p \in FavPairs \cup {<< <<>>, 1 >>, << <<"a">>, 0 >>}}

UpdateInputs == {[symbol |-> Some("BAR")]}

\* An entry of an import file, as JSON.parse gives it
FileEntry(address, chainId) ==
  [id |-> <<chainId, toLowerCase(address), 0>>, address |-> address,
   chainId |-> chainId, symbol |-> Some("FOO"), decimals |-> Some(18),
   tags |-> <<>>, addedAt |-> 0, lastUpdated |-> 0]

ImportFile(value) == [version |-> "1.0", exportTime |-> 0, favorites |-> value]

\* Import files: one entry, two entries with one key, and two malformed files
ImportFiles ==
  {ImportFile(ArrayValue(<<FileEntry(<<"A">>, 137)>>)),
   ImportFile(ArrayValue(<<FileEntry(<<"a">>, 1), FileEntry(<<"A">>, 1)>>)),
   ImportFile(StringValue),
   ImportFile(UndefinedValue)}

NextFav ==
  \/ Tick
  \/ MountFavorites
  \/ \E tokenData \in TokenInputs : AddToFavorites(tokenData)
  \/ \E p \in FavPairs : RemoveFromFavorites(p[1], p[2])
  \/ \E tokenData \in TokenInputs : ToggleFavorite(tokenData)
  \/ \E p \in FavPairs, updates \in UpdateInputs :
       UpdateFavorite(p[1], p[2], updates)
  \/ ClearFavorites
  \/ \E data \in ImportFiles, merge \in BOOLEAN :
       ImportFavorites(data, merge, "importFavorites")

SpecFav == Init /\ [][NextFav]_vars

----------------------------------------------------------------------------
(* Export and import of the favorites: exportFavorites, then importFavorites *)
(* of that document, handed over as it is or through a downloaded file      *)

ExportTokenInputs == {TokenData(<<"a">>, 1), TokenData(<<"A">>, 137)}

ExportImportFiles ==
  {ImportFile(ArrayValue(<<FileEntry(<<"b">>, 1), FileEntry(<<"B">>, 1)>>))}

NextExport ==
  \/ Tick
  \/ MountFavorites
  \/ \E tokenData \in ExportTokenInputs : AddToFavorites(tokenData)
  \/ ClearFavorites
  \/ \E data \in ExportImportFiles :
       ImportFavorites(data, FALSE, "importFavorites")
  \/ ExportFavorites
  \/ \E merge \in BOOLEAN : ImportFavorites(doc, merge, "importExported")
  \/ \E merge \in BOOLEAN :
       ImportFavorites(viaFile(doc), merge, "importExportedFile")

SpecExport == Init /\ [][NextExport]_vars

----------------------------------------------------------------------------
(* Claims about the favorites store *)

\* the entries a and b hold the same value under every key of FavoriteToken
FavoriteKeys ==
  {"id", "address", "chainId", "symbol", "name", "decimals", "tags", "note",
   "addedAt", "lastUpdated"}

SameEntries(x, y) ==
  /\ Len(x) = Len(y)
  /\ \A i \in DOMAIN x :
       /\ DOMAIN x[i] \cup DOMAIN y[i] \subseteq FavoriteKeys
       /\ \A k \in FavoriteKeys \ OptionalKeys :
            k \in DOMAIN x[i] /\ k \in DOMAIN y[i] /\ x[i][k] = y[i][k]
       /\ \A k \in FavoriteKeys \cap OptionalKeys :
            Get(x[i], k) = Get(y[i], k)

\* C3: addToFavorites of an (address, chainId) pair that the collection
\* already holds, the address compared without regard to case, returns false
\* and leaves the collection in memory and the stored collection as they were.
C3_DuplicateAddRejected ==
  [][(/\ lastOp'.op = "addToFavorites"
      /\ \E i \in DOMAIN favorites :
           /\ toLowerCase(favorites[i]["address"]) = toLowerCase(lastOp'.address)
           /\ favorites[i]["chainId"] = lastOp'.chainId)
     => (/\ lastOp'.ret = FALSE
         /\ favorites' = favorites
         /\ favStore' = favStore)]_vars

\* a rejected add of "A" on chain 1 while "a" on chain 1 is a favorite
C3_Witness ==
  /\ lastOp.op = "addToFavorites"
  /\ lastOp.address = <<"A">> /\ lastOp.chainId = 1
  /\ lastOp.ret = FALSE
  /\ \E i \in DOMAIN favorites :
       favorites[i]["address"] = <<"a">> /\ favorites[i]["chainId"] = 1
  /\ favStore.kind = "json" /\ Len(favStore.items) = Len(favorites)

\* C4: in every reachable state no two entries of the favorites collection
\* have the same (lowercased address, chainId) pair.
C4_NoDuplicateFavorites ==
  \A i, j \in DOMAIN favorites :
    (/\ toLowerCase(favorites[i]["address"]) = toLowerCase(favorites[j]["address"])
     /\ favorites[i]["chainId"] = favorites[j]["chainId"]) => i = j

\* C10: importing the document of exportFavorites() with merge = true into an
\* empty store returns true and makes the store hold the exported entries, with
\* the same values under every key and in the same order, in memory and in
\* localStorage.
C10_ExportImportRoundTrip ==
  [][(/\ lastOp'.op \in {"importExported", "importExportedFile"}
      /\ lastOp'.flag
      /\ favorites = <<>>
      /\ favStore.items = <<>>)
     => (/\ lastOp'.ret = TRUE
         /\ SameEntries(favorites', doc.favorites.items)
         /\ favStore'.kind = "json"
         /\ SameEntries(favStore'.items, doc.favorites.items))]_vars

\* two or more exported favorites came back through a file into an empty
\* store; the file dropped a key that held undefined
C10_Witness ==
  /\ lastOp.op = "importExportedFile"
  /\ lastOp.flag /\ lastOp.size = 0 /\ lastOp.ret
  /\ Len(doc.favorites.items) >= 2
  /\ Len(favorites) = Len(doc.favorites.items)
  /\ \E i \in DOMAIN doc.favorites.items :
       "name" \in DOMAIN doc.favorites.items[i] /\ "name" \notin DOMAIN favorites[i]

----------------------------------------------------------------------------
(* The search history driven by its callers: a few addresses in several     *)
(* spellings, calls within one millisecond or apart                         *)

HistAddresses == {<<"a">>, <<" ", "A">>, <<"b">>, <<"B", " ">>, <<" ">>, <<>>}

TokenInfoInputs == {Undefined, Some([symbol |-> Some("FOO")])}

RandValues == {1, 2}

NextHist ==
  \/ Tick
  \/ MountHistory
  \/ \E address \in HistAddresses, tokenInfo \in TokenInfoInputs,
        rand \in RandValues : AddToHistory(address, tokenInfo, rand)
  \/ \E i \in DOMAIN history : RemoveFromHistory(history[i]["id"])
  \/ RemoveFromHistory(<<0, 0>>)
  \/ ClearHistory

SpecHist == Init /\ [][NextHist]_vars

----------------------------------------------------------------------------
(* The search history filled beyond its capacity: new addresses one after   *)
(* the other, each call a millisecond after the last, with a few other      *)
(* operations in between                                                    *)

HexUpper ==
  <<"0", "1", "2", "3", "4", "5", "6", "7", "8", "9",
    "A", "B", "C", "D", "E", "F">>

\* the n-th address, as typed: two hexadecimal digits in upper case
AddrInput(n) == <<HexUpper[(n \div 16) + 1], HexUpper[(n % 16) + 1]>>

Detour == detours < MaxDetours /\ detours' = detours + 1

AddNewLater ==
  /\ Len(touched) < NumAddresses
  /\ addToHistoryStep(AddrInput(Len(touched) + 1), Undefined, 1, now + 1)
  /\ now' = now + 1
  /\ UNCHANGED detours

\* the oldest entry, or the one in the middle, is queried again
AddAgainLater ==
  /\ Detour
  /\ \E pos \in {Len(history), (Len(history) + 1) \div 2} :
       /\ pos \in DOMAIN history
       /\ \E n \in 1..NumAddresses :
            /\ toLowerCase(AddrInput(n)) = history[pos]["address"]
            /\ addToHistoryStep(AddrInput(n), Undefined, 1, now + 1)
  /\ now' = now + 1

RemoveOldest ==
  /\ Detour
  /\ history # <<>>
  /\ removeFromHistoryStep(history[Len(history)]["id"])
  /\ UNCHANGED now

ClearLong == Detour /\ clearHistoryStep /\ UNCHANGED now

MountLong == Detour /\ loadHistoryStep /\ UNCHANGED now

NextHistCap ==
  \/ AddNewLater
  \/ AddAgainLater
  \/ RemoveOldest
  \/ ClearLong
  \/ MountLong

SpecHistCap == Init /\ [][NextHistCap]_vars

----------------------------------------------------------------------------
(* Claims about the search history *)

Addresses(hist) == [i \in DOMAIN hist |-> hist[i]["address"]]

\* C5: from an empty store, through addToHistory, removeFromHistory,
\* clearHistory and loadHistory, the history never holds more than 20
\* entries, in memory or in localStorage.
C5_HistoryAtMostTwenty ==
  /\ Len(history) <= 20
  /\ Len(histStore.items) <= 20

\* the history is full and more addresses were added than it can hold
C5_Witness ==
  /\ Len(touched) > 20
  /\ Len(history) = 20
  /\ Len(histStore.items) = 20
  /\ lastOp.op = "addToHistory"

\* C6: while only addToHistory has been called, the entries kept are the
\* most recently touched addresses, most recent first, and at most 20 of
\* them: once more than 20 distinct addresses were added they are exactly the
\* 20 most recently touched, so that each overflow dropped the least recently
\* touched one.
C6_MostRecentlyTouchedKept ==
  addsOnly =>
    /\ Addresses(history) = SubSeq(touched, 1, Min(20, Len(touched)))
    /\ Addresses(histStore.items) = Addresses(history)

\* 22 addresses were added, the first of them was queried again before it
\* fell out and is kept, the second one is not
C6_Witness ==
  /\ addsOnly
  /\ Len(touched) >= 22
  /\ Len(history) = 20
  /\ \E i \in DOMAIN history : history[i]["address"] = toLowerCase(AddrInput(1))
  /\ \A i \in DOMAIN history : history[i]["address"] # toLowerCase(AddrInput(2))

\* no two entries have the same lowercased, trimmed address
NoDuplicateHistory ==
  \A i, j \in DOMAIN history :
    trim(toLowerCase(history[i]["address"])) =
      trim(toLowerCase(history[j]["address"])) => i = j

\* addToHistory of an address that entry i holds: same count, entry i first
\* with its id and the time of the call, the others in their order
ReAddMovesToFront ==
  \A i \in DOMAIN history :
    (/\ lastOp'.op = "addToHistory"
     /\ trim(toLowerCase(history[i]["address"])) =
          trim(toLowerCase(lastOp'.address)))
    => (/\ Len(history') = Len(history)
        /\ history'[1]["id"] = history[i]["id"]
        /\ history'[1]["address"] = history[i]["address"]
        /\ history'[1]["timestamp"] = now'
        /\ history'[1]["timestamp"] >= history[i]["timestamp"]
        /\ Tail(history') =
             SubSeq(history, 1, i - 1) \o SubSeq(history, i + 1, Len(history)))

\* C7: the history never holds two entries with the same normalized address;
\* addToHistory of an address already present leaves the count unchanged,
\* keeps the entry's id, sets its timestamp to the time of the call and makes
\* it the first entry, the other entries keeping their relative order.
C7_OneEntryPerAddress ==
  []NoDuplicateHistory /\ [][ReAddMovesToFront]_vars

\* "b" was added, then "a", then " A" a millisecond later: two entries, the
\* entry of "a" first with its id of time 0 and the timestamp 1
C7_Witness ==
  /\ lastOp.op = "addToHistory" /\ lastOp.address = <<" ", "A">>
  /\ Len(history) = 2
  /\ history[1]["address"] = <<"a">>
  /\ history[1]["id"][1] = 0 /\ history[1]["timestamp"] = 1
  /\ history[2]["address"] = <<"b">>

----------------------------------------------------------------------------
(* The event buffer filled beyond its limit: recordError again and again,   *)
(* and a handler recording several events when the buffer is nearly empty   *)
(* or nearly full                                                           *)

NearLimit == Len(events) < 2 \/ Len(events) >= MaxEvents - 2

Burst == detours < MaxBursts /\ detours' = detours + 1 /\ NearLimit

RecordError ==
  /\ appended < MaxAppended
  /\ recordErrorStep
  /\ UNCHANGED detours

RecordCacheHitBurst(hit) ==
  /\ appended < MaxAppended
  /\ Burst
  /\ recordCacheHitStep(hit)

MeasureRenderEnd(duration) ==
  /\ appended < MaxAppended
  /\ Burst
  /\ measureRenderEndStep(duration)

ClearDataBurst == Burst /\ clearDataStep

NextBuf ==
  \/ RecordError
  \/ \E hit \in BOOLEAN : RecordCacheHitBurst(hit)
  \/ \E duration \in {100, 101} : MeasureRenderEnd(duration)
  \/ ClearDataBurst

SpecBuf == Init /\ [][NextBuf]_vars

----------------------------------------------------------------------------
(* The cache statistics: recordCacheHit and clearData in any order *)

RecordCacheHit(hit) ==
  /\ calls < MaxCalls
  /\ recordCacheHitStep(hit)
  /\ UNCHANGED detours

ClearData == clearDataStep /\ UNCHANGED detours

NextCache ==
  \/ \E hit \in BOOLEAN : RecordCacheHit(hit)
  \/ ClearData

SpecCache == Init /\ [][NextCache]_vars

----------------------------------------------------------------------------
(* Claims about the performance monitor *)

\* the buffer holds at most 100 events, and they are the events recorded
\* last, in the order they were recorded
BufferIsMostRecent ==
  /\ Len(events) <= 100
  /\ \A i \in DOMAIN events : events[i].seq = appended - Len(events) + i

\* a handler recording k events on a buffer of n: n + k events if that is at
\* most 100; otherwise the recordEvent reaching 101 left 50, and the rest
\* of the k were appended to those
TruncatesToFifty ==
  appended' > appended =>
    Len(events') =
      IF Len(events) + (appended' - appended) > 100
        THEN Len(events) + (appended' - appended) - 51
        ELSE Len(events) + (appended' - appended)

\* C8: a recordEvent that makes the buffer exceed 100 entries leaves exactly
\* the 50 most recently appended events in their order, so the buffer holds
\* at most 100 events after every recordEvent.
C8_BufferTruncation ==
  []BufferIsMostRecent /\ [][TruncatesToFifty]_vars

\* the 101st event was recorded: events 52 to 101 are left
C8_Witness ==
  /\ lastOp.op = "recordError"
  /\ appended = 101
  /\ Len(events) = 50
  /\ events[1].seq = 52 /\ events[50].seq = 101

\* C9: the cache hit rate is the number of recordCacheHit(true) calls divided
\* by the number of recordCacheHit calls since the monitor was created or
\* cleared, and the rate reported for zero calls is 0.
C9_CacheHitRate ==
  /\ summaryCacheHitRate = IF calls = 0 THEN Zero ELSE Quotient(trues, calls)
  /\ calls > 0 => /\ metrics["cacheHitRate"] = Quotient(trues, calls)
                  /\ metrics["cacheStats"] = [hits |-> trues, total |-> calls]
  /\ calls = 0 => "cacheHitRate" \notin DOMAIN metrics

\* one hit in three calls: the rate is a third, six events were recorded
C9_Witness ==
  /\ calls = 3 /\ trues = 1
  /\ summaryCacheHitRate = <<1, 3>>
  /\ lastOp.op = "recordCacheHit"
  /\ Len(events) = 6

----------------------------------------------------------------------------
(* The query form and the query hooks driven by the user and the wallet *)

AddressTexts ==
  {<<"0", "x">> \o digits : digits \in [1..(AddressLength - 2) -> {"a", "A"}]}

\* texts isAddress refuses: empty, blank, too short, padded, not hexadecimal
InvalidTexts ==
  {<<>>, <<" ">>, <<"0", "x">>}
    \cup {<<" ">> \o a : a \in AddressTexts}
    \cup {<<"0", "x">> \o digits : digits \in [1..(AddressLength - 2) -> {"g"}]}

QueryTexts == AddressTexts \cup InvalidTexts

ChainIds == {1, 137}

\* the form: typing, selecting, submitting, and the wallet coming and going
NextForm ==
  \/ \E value \in QueryTexts : HandleInputChange(value)
  \/ HandleQuery
  \/ \E address \in AddressTexts : HandleSelectToken(address)
  \/ \E id \in ChainIds : AccountChanged(TRUE, id)
  \/ AccountChanged(FALSE, 0)
  \/ ReadContract

SpecForm == Init /\ [][NextForm]_vars

\* the query client as the hooks call it, for addresses that were queried
NextKeys ==
  \/ \E value \in AddressTexts : HandleInputChange(value)
  \/ HandleQuery
  \/ \E id \in ChainIds : AccountChanged(TRUE, id)
  \/ Len(queryCalls) < MaxQueryCalls /\ InvalidateCache
  \/ \E tokenAddress \in QueryTexts :
       Len(queryCalls) < MaxQueryCalls /\ PrefetchTokenInfo(tokenAddress)
  \/ \E address \in AddressTexts, id \in ChainIds :
       Len(queryCalls) < MaxQueryCalls /\ UseCachedTokenInfo(address, id)

SpecKeys == Init /\ [][NextKeys]_vars

----------------------------------------------------------------------------
(* Claims about the query keys and the query form *)

\* two query keys name the same field of the same contract on the same chain
SameUpToCase(k1, k2) ==
  /\ Len(k1) = Len(k2)
  /\ toLowerCase(k1[3]) = toLowerCase(k2[3])
  /\ k1[4] = k2[4]
  /\ SubSeq(k1, 5, Len(k1)) = SubSeq(k2, 5, Len(k2))

\* C13: the query keys handed to the query client by invalidations and by
\* cached-data lookups are equal whenever they name the same chain and field
\* and addresses that differ only in letter case.
C13_KeysIgnoreCase ==
  \A i, j \in DOMAIN queryCalls :
    (/\ queryCalls[i].method \in {"invalidateQueries", "getQueryData"}
     /\ queryCalls[j].method = queryCalls[i].method
     /\ SameUpToCase(queryCalls[i].queryKey, queryCalls[j].queryKey))
      => queryCalls[i].queryKey = queryCalls[j].queryKey

\* C20: handleQuery on an input that is blank or not an address leaves an
\* error message, leaves queryAddress as it was and enables no read; no read
\* is ever enabled for a text that is blank or not an address.
RejectedSynchronously ==
  (/\ lastOp'.op = "handleQuery"
   /\ (trim(contractAddress) = <<>> \/ ~isAddress(contractAddress)))
    => /\ error' # Null
       /\ queryAddress' = queryAddress
       /\ reads' = reads

ReadsOnlyAddresses ==
  \A address \in reads : trim(address) # <<>> /\ isAddress(address)

C20_InvalidQueryRejected ==
  [][RejectedSynchronously]_vars /\ []ReadsOnlyAddresses

\* a query of a text that is no address was refused after an earlier query
\* of an address had been read
C20_Witness ==
  /\ lastOp.op = "handleQuery"
  /\ trim(contractAddress) # <<>>
  /\ ~isAddress(contractAddress)
  /\ error # Null
  /\ queryAddress # Null
  /\ reads # {}

----------------------------------------------------------------------------
(* The price service driven by its callers *)

NextPrice ==
  \/ \E r \in Requests : InterceptRequest(r)
  \/ \E r \in Requests : ResumeRequest(r)
  \/ \E r \in Requests : CompleteRequest(r)
  \/ AdvanceClock

SpecPrice == Init /\ [][NextPrice]_vars

\* C19: any two requests that left the interceptor did so at least
\* MIN_REQUEST_INTERVAL (1000 ms) apart.
C19_RequestsOneSecondApart ==
  \A i, j \in DOMAIN sent : i < j => sent[j] - sent[i] >= 1000

----------------------------------------------------------------------------
(* Both stores over a storage that fills up and that others write to *)

\* localStorage starts or stops refusing writes
StorageQuota(full) ==
  /\ quotaExceeded' = full
  /\ lastOp' = [Op("storageQuota") EXCEPT !.flag = full]
  /\ UNCHANGED <<now, favVars, histVars, perfVars, netVars>>

\* the favorites key is removed or written by something other than the hook
FavoritesStorageChanged(slot) ==
  /\ favStore' = slot
  /\ lastOp' = Op("favoritesStorageChanged")
  /\ UNCHANGED <<now, quotaExceeded, favorites, doc, histVars, perfVars,
                 netVars>>

\* the history key is removed or written by something other than the hook
HistoryStorageChanged(slot) ==
  /\ histStore' = slot
  /\ lastOp' = Op("historyStorageChanged")
  /\ UNCHANGED <<now, quotaExceeded, history, detours, touched, addsOnly,
                 favVars, perfVars, netVars>>

NoList == {"absent", "empty", "scalar", "invalid", "denied"}

ForeignFavorites ==
  {[kind |-> k, items |-> <<>>] : k \in NoList}
    \cup {[kind |-> "object", items |-> <<FileEntry(<<"b">>, 1)>>]}

ForeignHistory ==
  {[kind |-> k, items |-> <<>>] : k \in NoList}
    \cup {[kind |-> "object",
           items |-> <<[id |-> <<0, 1>>, address |-> <<"b">>,
                        timestamp |-> 0]>>]}

StorageTokenInputs == {TokenData(<<"a">>, 1)}

StorageImportFiles == {ImportFile(ArrayValue(<<FileEntry(<<"b">>, 1)>>))}

StorageAddresses == {<<"A", " ">>, <<" ">>}

NextStorage ==
  \/ \E full \in BOOLEAN : StorageQuota(full)
  \/ \E slot \in ForeignFavorites : FavoritesStorageChanged(slot)
  \/ \E slot \in ForeignHistory : HistoryStorageChanged(slot)
  \/ MountFavorites
  \/ MountHistory
  \/ \E tokenData \in StorageTokenInputs : AddToFavorites(tokenData)
  \/ RemoveFromFavorites(<<"a">>, 1)
  \/ \E updates \in UpdateInputs : UpdateFavorite(<<"A">>, 1, updates)
  \/ ClearFavorites
  \/ \E data \in StorageImportFiles, merge \in BOOLEAN :
       ImportFavorites(data, merge, "importFavorites")
  \/ \E address \in StorageAddresses : AddToHistory(address, Undefined, 1)
  \/ \E i \in DOMAIN history : RemoveFromHistory(history[i]["id"])
  \/ ClearHistory

SpecStorage == Init /\ [][NextStorage]_vars

----------------------------------------------------------------------------
(* Claims about loading and saving *)

\* C14: a load of a key that is absent or that holds no JSON array (no JSON
\* at all, JSON of another type, or a storage that cannot be read) leaves the
\* collection in memory empty.
C14_LoadFailureGivesEmpty ==
  [][/\ (lastOp'.op = "loadFavorites" /\ favStore.kind # "json")
          => favorites' = <<>>
     /\ (lastOp'.op = "loadHistory" /\ histStore.kind # "json")
          => history' = <<>>]_vars

\* the favorites were loaded from a key that holds a JSON object
C14_Witness ==
  /\ lastOp.op = "loadFavorites"
  /\ favStore.kind = "object"
  /\ favStore.items # <<>>
  /\ favorites = <<>>

FavoritesMutations ==
  {"addToFavorites", "removeFromFavorites", "updateFavorite",
   "importFavorites", "clearFavorites"}

HistoryMutations == {"addToHistory", "removeFromHistory", "clearHistory"}

\* C15: while storage refuses writes, add, remove, update, import and clear
\* leave the collection in memory and the stored collection as they were.
C15_FailedWriteChangesNothing ==
  [][(quotaExceeded /\ lastOp'.op \in FavoritesMutations \cup HistoryMutations)
       => /\ favorites' = favorites
          /\ favStore' = favStore
          /\ history' = history
          /\ histStore' = histStore]_vars

\* a token was added to stored favorites while storage refused writes, and
\* is in neither the favorites nor the storage
C15_Witness ==
  /\ quotaExceeded
  /\ lastOp.op = "addToFavorites"
  /\ lastOp.ret
  /\ favorites # <<>>
  /\ favStore = JsonText(favorites)
  /\ ~isFavorite(favorites, lastOp.address, lastOp.chainId)

\* the step is a mutation that reaches its save
Saves ==
  \/ lastOp'.op \in {"removeFromFavorites", "updateFavorite", "clearFavorites",
                     "removeFromHistory", "clearHistory"}
  \/ lastOp'.op \in {"addToFavorites", "importFavorites"} /\ lastOp'.ret
  \/ lastOp'.op = "addToHistory" /\ addressGiven(lastOp'.address)

----------------------------------------------------------------------------
(* The favorites store under load, add, remove, update and merging imports *)

OrderTokenInputs == {TokenData(<<"a">>, 1), TokenData(<<"b">>, 1)}

NextOrder ==
  \/ Tick
  \/ MountFavorites
  \/ \E tokenData \in OrderTokenInputs : AddToFavorites(tokenData)
  \/ \E tokenData \in OrderTokenInputs :
       RemoveFromFavorites(tokenData.address, tokenData.chainId)
  \/ \E tokenData \in OrderTokenInputs, updates \in UpdateInputs :
       UpdateFavorite(tokenData.address, tokenData.chainId, updates)
  \/ ExportFavorites
  \/ ImportFavorites(viaFile(doc), TRUE, "importFavorites")

SpecOrder == Init /\ [][NextOrder]_vars

\* C17: the favorites held by the hook are in most-recently-added-first
\* order: addedAt does not increase from one entry to the next.
C17_FavoritesNewestFirst ==
  \A i \in 1..(Len(favorites) - 1) :
    favorites[i]["addedAt"] >= favorites[i + 1]["addedAt"]

----------------------------------------------------------------------------
(* Claims about the order of the history *)

Keywords == {<<>>, <<" ">>, <<"a">>, <<"B">>, <<"o", "O">>, <<"x">>}

Counts == {0, 1, 5}

\* the entries of part are entries of list, in the order they have in list
InOrderOf(part, list) ==
  \E at \in [DOMAIN part -> DOMAIN list] :
    /\ \A i \in DOMAIN part : list[at[i]] = part[i]
    /\ \A i, j \in DOMAIN part : i < j => at[i] < at[j]

\* C18: the history is most-recent-first: timestamps do not increase from
\* one entry to the next, and searchHistory and getRecentHistory return
\* entries of the history in the order the history has them.
C18_HistoryNewestFirst ==
  /\ \A i \in 1..(Len(history) - 1) :
       history[i]["timestamp"] >= history[i + 1]["timestamp"]
  /\ \A keyword \in Keywords :
       InOrderOf(searchHistory(history, keyword), history)
  /\ \A count \in Counts :
       InOrderOf(getRecentHistory(history, count), history)

\* a history of two entries added at different times, of which a search by
\* symbol returns the older one only
C18_Witness ==
  /\ Len(history) = 2
  /\ history[1]["timestamp"] > history[2]["timestamp"]
  /\ searchHistory(history, <<"o", "O">>) = <<history[2]>>
  /\ getRecentHistory(history, 1) = <<history[1]>>

----------------------------------------------------------------------------
(* The measurement handles ended at and just over their thresholds *)

MeasureInteractionEnd(duration) ==
  /\ appended < MaxAppended
  /\ Burst
  /\ measureInteractionEndStep(duration)

MeasureNetworkRequestEnd(duration, success) ==
  /\ appended < MaxAppended
  /\ Burst
  /\ measureNetworkRequestEndStep(duration, success)

NextMeasure ==
  \/ RecordError
  \/ \E duration \in {0, 100, 101} : MeasureRenderEnd(duration)
  \/ \E duration \in {0, 200, 201} : MeasureInteractionEnd(duration)
  \/ \E duration \in {0, 3000, 3001}, success \in BOOLEAN :
       MeasureNetworkRequestEnd(duration, success)

SpecMeasure == Init /\ [][NextMeasure]_vars

\* the events a handler recorded in the step, oldest first
Recorded == SliceTail(events', Min(appended' - appended, Len(events')))

IsSlowName(name) == includes(Chars(name), Chars("slow-"))

\* the events recorded are one duration event of the elapsed time, for a
\* network request its success or error mark, and then a slow event if slow
\* holds and no further event otherwise
DurationThenSlow(marks, slow) ==
  /\ Len(Recorded) = 1 + marks + (IF slow THEN 1 ELSE 0)
  /\ Recorded[1].value = lastOp'.size
  /\ ~IsSlowName(Recorded[1].name)
  /\ \A i \in 2..(1 + marks) : ~IsSlowName(Recorded[i].name)
  /\ slow => /\ IsSlowName(Recorded[Len(Recorded)].name)
             /\ Recorded[Len(Recorded)].value = lastOp'.size

\* C30: end() of a measureRender, measureInteraction or measureNetworkRequest
\* handle appends the duration event and appends one slow event, its name
\* containing "slow-", if and only if the elapsed time is greater than 100,
\* 200 or 3000 ms; at exactly the threshold there is no slow event.
C30_SlowOnlyOverThreshold ==
  [][/\ lastOp'.op = "measureRender.end"
          => DurationThenSlow(0, lastOp'.size > 100)
     /\ lastOp'.op = "measureInteraction.end"
          => DurationThenSlow(0, lastOp'.size > 200)
     /\ lastOp'.op = "measureNetworkRequest.end"
          => DurationThenSlow(1, lastOp'.size > 3000)]_vars

\* an interaction of exactly 200 ms was measured on a buffer of 100 events:
\* one event was recorded and the buffer was cut to 50
C30_Witness ==
  /\ lastOp.op = "measureInteraction.end"
  /\ lastOp.size = 200
  /\ Len(events) = 50
  /\ events[50].name = "interaction-i"

----------------------------------------------------------------------------
(* Claims about the return value of addToFavorites *)

\* C25: addToFavorites returns true only when the new (address, chainId)
\* entry is in the stored collection and in the collection in memory; it does
\* not return true when the write to storage failed.
C25_TrueOnlyWhenStored ==
  [][(lastOp'.op = "addToFavorites" /\ lastOp'.ret)
       => /\ isFavorite(favorites', lastOp'.address, lastOp'.chainId)
          /\ favStore'.kind = "json"
          /\ isFavorite(favStore'.items, lastOp'.address, lastOp'.chainId)]_vars

----------------------------------------------------------------------------
(* updateFavorite driven with updates of every shape *)

\* updates arguments: no field, one field, two fields one of them undefined
UpdateArgs ==
  {<<>>, [symbol |-> Some("BAR")],
   [note |-> Some("BAR"), name |-> Undefined]}

UpdateTokenInputs == {TokenData(<<"a">>, 1), TokenData(<<"b">>, 1)}

UpdatePairs == {<< <<"A">>, 1 >>, << <<"b">>, 1 >>, << <<"a">>, 137 >>}

NextUpdate ==
  \/ Tick
  \/ MountFavorites
  \/ \E tokenData \in UpdateTokenInputs : AddToFavorites(tokenData)
  \/ \E p \in UpdatePairs : RemoveFromFavorites(p[1], p[2])
  \/ \E p \in UpdatePairs, updates \in UpdateArgs :
       UpdateFavorite(p[1], p[2], updates)

SpecUpdate == Init /\ [][NextUpdate]_vars

Matches(fav, address, chainId) ==
  /\ toLowerCase(fav["address"]) = toLowerCase(address)
  /\ fav["chainId"] = chainId

\* what a step may change in the favorites when it is
\* updateFavorite(address, chainId, updates)
UpdateFrame(address, chainId, updates) ==
  /\ Len(favorites') = Len(favorites)
  /\ \A i \in DOMAIN favorites :
       IF Matches(favorites[i], address, chainId)
         THEN /\ \A k \in {"id", "address", "chainId", "addedAt"} :
                   favorites'[i][k] = favorites[i][k]
              /\ \A k \in FavoriteKeys \ (DOMAIN updates \cup {"lastUpdated"}) :
                   Get(favorites'[i], k) = Get(favorites[i], k)
         ELSE favorites'[i] = favorites[i]
  /\ (\A i \in DOMAIN favorites : ~Matches(favorites[i], address, chainId))
       => favorites' = favorites

\* C27: updateFavorite(address, chainId, updates) changes only entries whose
\* address equals the argument without regard to case and whose chainId
\* equals the argument: in such an entry only the fields named in updates and
\* lastUpdated change, and id, address, chainId and addedAt keep their values;
\* every other entry, the number of entries and their order stay as they were,
\* and without a matching entry the collection is unchanged.
C27_UpdateChangesOnlyMatching ==
  [][\A p \in UpdatePairs, updates \in UpdateArgs :
       UpdateFavorite(p[1], p[2], updates)
         => UpdateFrame(p[1], p[2], updates)]_vars

\* the note of "a" was set through the spelling "A", after the clock moved,
\* while "b" is a favorite as well
C27_Witness ==
  /\ lastOp.op = "updateFavorite"
  /\ lastOp.address = <<"A">> /\ lastOp.chainId = 1
  /\ Len(favorites) = 2
  /\ \E i \in DOMAIN favorites :
       /\ favorites[i]["address"] = <<"a">>
       /\ favorites[i]["note"] = Some("BAR")
       /\ favorites[i]["addedAt"] = 0
       /\ favorites[i]["lastUpdated"] = 1
  /\ \E i \in DOMAIN favorites :
       /\ favorites[i]["address"] = <<"b">>
       /\ favorites[i]["note"] = Undefined

----------------------------------------------------------------------------
(* FavoritesManager: deletion of the selected favorites *)

find(favs, tokenId) ==
  IF \E i \in DOMAIN favs : favs[i]["id"] = tokenId
    THEN Some(favs[CHOOSE i \in DOMAIN favs :
                /\ favs[i]["id"] = tokenId
                /\ \A j \in DOMAIN favs : favs[j]["id"] = tokenId => i <= j])
    ELSE Undefined

\* the list the forEach of handleBatchDelete saved last, Undefined when it
\* saved nothing: every call of removeFromFavorites is the callback of one
\* render, and filters the favorites of that render
RECURSIVE forEachRemove(_, _)
forEachRemove(selectedTokens, saved) ==
  IF selectedTokens = <<>> THEN saved
  ELSE LET token == find(favorites, Head(selectedTokens))
       IN forEachRemove(Tail(selectedTokens),
            IF token = Undefined THEN saved
            ELSE Some(SelectSeq(favorites, LAMBDA fav :
                   ~(toLowerCase(fav["address"]) = toLowerCase(token[1]["address"])
                       /\ fav["chainId"] = token[1]["chainId"]))))

\* selectedTokens in the order of selection, which is the order of a Set
HandleBatchDelete(selectedTokens) ==
  /\ LET saved == forEachRemove(selectedTokens, Undefined)
     IN IF saved = Undefined
          THEN UNCHANGED <<favorites, favStore>>
          ELSE saveFavorites(saved[1])
  /\ lastOp' = [Op("handleBatchDelete") EXCEPT !.id = selectedTokens]
  /\ UNCHANGED <<now, quotaExceeded, doc, histVars, perfVars, netVars>>

\* the most tokens selected at once
MaxSelected == 3

BatchTokenInputs ==
  {TokenData(<<"a">>, 1), TokenData(<<"b">>, 1), TokenData(<<"a">>, 137)}

\* the selections of one, two or three of the listed favorites, in any order
Selections ==
  LET ids == {favorites[i]["id"] : i \in DOMAIN favorites}
  IN UNION {{s \in [1..n -> ids] : \A i, j \in 1..n : s[i] = s[j] => i = j} :
              n \in 1..MaxSelected}

NextBatch ==
  \/ Tick
  \/ MountFavorites
  \/ \E tokenData \in BatchTokenInputs : AddToFavorites(tokenData)
  \/ \E selectedTokens \in Selections : HandleBatchDelete(selectedTokens)

SpecBatch == Init /\ [][NextBatch]_vars

Ids(list) == {list[i]["id"] : i \in 1..Len(list)}

\* C23: after the batch delete of the selected ids, one or several, no
\* favorite with a selected id is left in memory or in storage, and every
\* favorite that was not selected is still in both.
C23_BatchDeleteRemovesSelection ==
  [][lastOp'.op = "handleBatchDelete"
       => LET selected == {lastOp'.id[i] : i \in DOMAIN lastOp'.id}
          IN /\ Ids(favorites') = Ids(favorites) \ selected
             /\ favStore'.kind = "json"
             /\ Ids(favStore'.items) = Ids(favorites) \ selected]_vars

----------------------------------------------------------------------------
(* SearchHistory: a second instance of useSearchHistory on the same key *)

\* saveHistory of the instance of the SearchHistory component
panelSaveHistory(newHistory) ==
  IF quotaExceeded
    THEN UNCHANGED <<panelHistory, histStore>>
    ELSE /\ histStore' = JsonText(newHistory)
         /\ panelHistory' = newHistory

otherThanPanel ==
  <<now, quotaExceeded, favVars, detours, touched, addsOnly, perfVars,
    queryVars, priceVars, otherMonitor, priceCall, effectVars>>

\* the component is mounted after its chunk has arrived: its hook loads
MountSearchHistory ==
  /\ panelHistory' = loadHistory(<<>>, histStore)
  /\ lastOp' = Op("SearchHistory.loadHistory")
  /\ UNCHANGED <<history, histStore, otherThanPanel>>

\* the page is loaded: both instances are mounted and load
MountPage ==
  /\ panelHistory' = loadHistory(<<>>, histStore)
  /\ history' = loadHistory(<<>>, histStore)
  /\ lastOp' = Op("loadPage")
  /\ UNCHANGED <<histStore, otherThanPanel>>

\* handleRemoveItem: removeFromHistory(id) of the component's instance
HandleRemoveItem(id) ==
  /\ panelSaveHistory(SelectSeq(panelHistory, LAMBDA item : item["id"] # id))
  /\ lastOp' = [Op("SearchHistory.removeFromHistory") EXCEPT !.id = id]
  /\ UNCHANGED <<history, otherThanPanel>>

PanelAddresses == {<<"a">>, <<"b">>}

NextPanel ==
  \/ Tick
  \/ MountPage
  \/ MountSearchHistory
  \/ \E address \in PanelAddresses, rand \in RandValues :
       AddToHistory(address, Undefined, rand)
  \/ \E i \in DOMAIN panelHistory : HandleRemoveItem(panelHistory[i]["id"])

SpecPanel == Init /\ [][NextPanel]_vars

\* C24: an entry that addToHistory of the query form's instance wrote to
\* storage is still in storage after removeFromHistory of the SearchHistory
\* instance has removed an entry with another id.
C24_NoLostUpdate ==
  [][lastOp'.op = "SearchHistory.removeFromHistory"
       => (Ids(histStore.items) \cap Ids(history)) \ {lastOp'.id}
            \subseteq Ids(histStore'.items)]_vars

----------------------------------------------------------------------------
(* Two performance monitors: one records until it has dropped events, then  *)
(* the other one records                                                    *)

\* the most events one monitor records
MaxRecorded == 103

\* from here on the operations are those of the other instance
SwitchMonitor ==
  /\ appended > Len(events)
  /\ otherMonitor.appended = 0
  /\ otherMonitor' = [events |-> events, metrics |-> metrics,
                      appended |-> appended, calls |-> calls, trues |-> trues]
  /\ events' = otherMonitor.events
  /\ metrics' = otherMonitor.metrics
  /\ appended' = otherMonitor.appended
  /\ calls' = otherMonitor.calls
  /\ trues' = otherMonitor.trues
  /\ lastOp' = Op("switchMonitor")
  /\ UNCHANGED <<now, quotaExceeded, favVars, histVars, queryVars, priceVars,
                 panelHistory, priceCall, effectVars>>

RecordErrorOften ==
  /\ appended < MaxRecorded
  /\ recordErrorStep
  /\ UNCHANGED detours

\* the first thing a monitor records is a cache hit or miss
RecordCacheHitFirst(hit) ==
  /\ appended = 0
  /\ recordCacheHitStep(hit)
  /\ UNCHANGED detours

\* the first thing a monitor records is a token query or a render
MeasureFirst(duration, render) ==
  /\ appended = 0
  /\ IF render THEN measureRenderEndStep(duration)
               ELSE measureTokenQueryEndStep(duration)
  /\ UNCHANGED detours

\* the last thing a monitor records before it drops events is a token query
\* or a render
MeasureLast(duration, render) ==
  /\ Len(events) = MaxEvents - 1
  /\ IF render THEN measureRenderEndStep(duration)
               ELSE measureTokenQueryEndStep(duration)
  /\ UNCHANGED detours

NextSummary ==
  \/ RecordErrorOften
  \/ \E hit \in BOOLEAN : RecordCacheHitFirst(hit)
  \/ \E duration \in {100, 101}, render \in BOOLEAN :
       MeasureFirst(duration, render)
  \/ \E duration \in {100, 101}, render \in BOOLEAN :
       MeasureLast(duration, render)
  \/ SwitchMonitor

SpecSummary == Init /\ [][NextSummary]_vars

\* the two buffers hold the same events; seq is no field of an event
SameBuffer(x, y) ==
  /\ Len(x) = Len(y)
  /\ \A i \in DOMAIN x :
       /\ x[i].type = y[i].type
       /\ x[i].name = y[i].name
       /\ x[i].value = y[i].value
       /\ x[i].timestamp = y[i].timestamp

\* both monitors have dropped events and now hold the same buffer
TruncatedAlike ==
  /\ appended > Len(events)
  /\ otherMonitor.appended > Len(otherMonitor.events)
  /\ SameBuffer(events, otherMonitor.events)

BufferStatistics ==
  {"totalEvents", "errorCount", "averageQueryTime", "averageRenderTime",
   "slowInteractions"}

\* C28 as stated: two monitors that have dropped events and whose buffers are
\* equal return equal summaries, the cache hit rate included.
C28_EqualBuffersEqualSummaries ==
  TruncatedAlike
    => getPerformanceSummary(events, metrics)
         = getPerformanceSummary(otherMonitor.events, otherMonitor.metrics)

\* C28: two monitors that have dropped events and whose buffers are equal
\* return the same total, error count, count of slow- events, mean query time
\* and mean render time; the cache hit rate of a summary is the number of
\* recordCacheHit(true) calls over the number of recordCacheHit calls since
\* the monitor was created or cleared, 0 without a call, whatever the buffer
\* holds.
C28_SummaryOfBufferAndCounters ==
  /\ TruncatedAlike
       => \A k \in BufferStatistics :
            getPerformanceSummary(events, metrics)[k]
              = getPerformanceSummary(otherMonitor.events,
                                      otherMonitor.metrics)[k]
  /\ getPerformanceSummary(events, metrics).cacheHitRate
       = IF calls = 0 THEN Zero ELSE Quotient(trues, calls)
  /\ getPerformanceSummary(otherMonitor.events,
                           otherMonitor.metrics).cacheHitRate
       = IF otherMonitor.calls = 0 THEN Zero
         ELSE Quotient(otherMonitor.trues, otherMonitor.calls)

\* two monitors with equal buffers of fifty events, a slow render among them;
\* one of them has dropped a cache hit and a token query the other one never
\* recorded
C28_Witness ==
  /\ TruncatedAlike
  /\ Len(events) = KeepEvents
  /\ getPerformanceSummary(events, metrics).averageRenderTime = <<101, 1>>
  /\ getPerformanceSummary(events, metrics).slowInteractions = 1
  /\ getPerformanceSummary(events, metrics).cacheHitRate = Zero
  /\ getPerformanceSummary(otherMonitor.events,
                           otherMonitor.metrics).cacheHitRate = <<1, 1>>
  /\ "queryTime" \in DOMAIN metrics
  /\ "queryTime" \notin DOMAIN otherMonitor.metrics

----------------------------------------------------------------------------
(* The price service called with every outcome of its requests *)

PriceEntry ==
  ObjectValue([k \in {"usd", "usd_24h_change", "usd_market_cap", "usd_24h_vol",
                      "last_updated_at"} |-> NumberValue(1)])

\* bodies as the API documents them, one for each endpoint
PriceBody == ObjectValue([k \in {"0xa"} |-> PriceEntry])
DetailBody == ObjectValue([k \in DetailKeys |-> TextValue(<<"x">>)])
MarketsBody == ArrayValue(<<ObjectValue([k \in PriceKeys |-> NumberValue(1)])>>)
ChartBody ==
  ObjectValue([k \in {"prices"} |->
                 ArrayValue(<<ArrayValue(<<NumberValue(1), NumberValue(2)>>)>>)])
SearchBody == ObjectValue([k \in {"coins"} |-> ArrayValue(<<DetailBody>>)])

\* other bodies: null, a page of HTML, {} and [{}]
HtmlBody == TextValue(<<"<">>)
EmptyObject == ObjectValue(<<>>)

\* what a request can come to: no answer in time, a status outside 2xx, or a
\* 2xx answer with one of the bodies
Outcomes ==
  <<Timeout, Response(429, NullValue), Response(500, NullValue),
    Response(200, PriceBody), Response(200, DetailBody),
    Response(200, MarketsBody), Response(200, ChartBody),
    Response(200, SearchBody), Response(200, NullValue),
    Response(200, HtmlBody), Response(200, EmptyObject),
    Response(200, ArrayValue(<<EmptyObject>>))>>

\* what the request for the details comes to
DetailOutcomes ==
  <<Timeout, Response(200, DetailBody), Response(200, EmptyObject)>>

NextService ==
  \/ \E fn \in PriceFunctions \ {"getTokenPriceByContract"},
        contract \in {"0xa", "0xA"}, i \in DOMAIN Outcomes :
       CallPriceService(fn, contract, Outcomes[i], Timeout)
  \/ \E contract \in {"0xa", "0xA"}, i \in DOMAIN Outcomes,
        j \in DOMAIN DetailOutcomes :
       CallPriceService("getTokenPriceByContract", contract, Outcomes[i],
                        DetailOutcomes[j])
  \/ AdvanceClock

SpecService == Init /\ [][NextService]_vars

HasFields(v, keys) == v.type = "object" /\ keys \subseteq DOMAIN v.items

AllHaveFields(v, keys) ==
  /\ v.type = "array"
  /\ \A i \in DOMAIN v.items : HasFields(v.items[i], keys)

\* the body has the shape the function reads
WellFormed(fn, data) ==
  CASE fn = "getTokenPriceByContract" ->
         /\ data.type = "object"
         /\ \A k \in DOMAIN data.items :
              HasFields(data.items[k], {"usd", "last_updated_at"})
    [] fn = "getTokenDetailsByContract" -> HasFields(data, DetailKeys)
    [] fn \in {"getTokenPriceById", "getTrendingTokens"} ->
         AllHaveFields(data, PriceKeys)
    [] fn = "getTokenHistoricalPrices" ->
         /\ HasFields(data, {"prices"})
         /\ data.items["prices"].type = "array"
         /\ \A i \in DOMAIN data.items["prices"].items :
              data.items["prices"].items[i].type = "array"
    [] fn = "searchTokens" ->
         /\ HasFields(data, {"coins"})
         /\ AllHaveFields(data.items["coins"], DetailKeys)

\* the request failed, or was answered with a body of another shape
FailedOrMalformed(fn, outcome) ==
  \/ get(outcome).type = "thrown"
  \/ ~WellFormed(fn, outcome.data)

\* null from a function with a single result, an empty list from the others
NullOrEmpty(fn, value) ==
  IF fn \in {"getTokenPriceByContract", "getTokenPriceById",
             "getTokenDetailsByContract"}
    THEN value.type = "null"
    ELSE value.type = "array" /\ Len(value.items) = 0

\* C29: every call of a function of the price service is fulfilled, never
\* rejected; when its request timed out, was answered with 429 or 5xx or with
\* a malformed body, the call returns null (functions with a single result) or
\* an empty list (functions with a list), and the request is not made again.
\* (For getTokenPriceByContract the request meant is the one for the price;
\* a failure of its second request, for the details, is not counted here.)
C29_FailuresGiveNullOrEmpty ==
  priceCall.fn # "none"
    => /\ priceCall.value.type # "thrown"
       /\ FailedOrMalformed(priceCall.fn, priceCall.outcomes[1])
            => /\ NullOrEmpty(priceCall.fn, priceCall.value)
               /\ priceCall.gets = 1

----------------------------------------------------------------------------
(* One token query from the form to the history: the wallet connects, the   *)
(* user enters an address once and submits it once, the reads settle        *)

ReadData(symbol, name) ==
  [symbol |-> symbol, name |-> name, decimals |-> Some(18),
   totalSupply |-> Some(1)]

\* a token with symbol and name, tokens whose name() gives no text, and a
\* contract that answers none of the reads
ReadResults ==
  {ReadData(Some("FOO"), Some("BAR")), ReadData(Some("FOO"), Undefined),
   ReadData(Some("FOO"), Some("")), NoData}

EffectTexts == {<<"0", "x", "a">>, <<"0", "x", "A">>, <<"0", "y", "a">>}

Connect ==
  /\ ~isConnected
  /\ \E id \in {1, 137} : AccountChanged(TRUE, id)

EnterAddress ==
  /\ contractAddress = <<>>
  /\ \E value \in EffectTexts : HandleInputChange(value)

Submit ==
  /\ queryAddress = Null
  /\ contractAddress # <<>>
  /\ HandleQuery

NextEffect ==
  \/ Tick
  \/ Connect
  \/ EnterAddress
  \/ Submit
  \/ \E rand \in {1} : Render(rand)
  \/ \E data \in ReadResults : ReadsSettle(data)

SpecEffect == Init /\ [][NextEffect]_vars

\* the same with one address, with the clock standing still, and with a
\* render that was scheduled taking place
NextQuiesce ==
  \/ Connect
  \/ contractAddress = <<>> /\ HandleInputChange(<<"0", "x", "a">>)
  \/ Submit
  \/ Render(1)
  \/ \E name \in {Some("BAR"), Undefined} :
       ReadsSettle(ReadData(Some("FOO"), name))

SpecQuiesce == Init /\ [][NextQuiesce]_vars /\ WF_vars(Render(1))

\* C21: after every render in which the query of queryAddress has token
\* information (hasTokenInfo), the history holds an entry for that address.
C21_SuccessIsInHistory ==
  [][(lastOp'.op = "render" /\ hasTokenInfo(tokenReads') /\ queryAddress' # Null)
       => \E i \in DOMAIN history' :
            history'[i]["address"] = trim(toLowerCase(queryAddress'[1]))]_vars

\* C22: after the one query, the renders and the writes of the history come
\* to an end: from some point on no render is pending.
C22_EffectQuiesces == <>[](~renderPending)

NamedEvents(names) ==
  Len(SelectSeq(events, LAMBDA e : e.name \in names))

\* C26: the events hold one token-query-duration event and one cache-hit or
\* cache-miss event for every token query that has settled, and no
\* token-query-duration event while no query has been issued; checked after
\* every render, when the effects have run.
C26_OneLatencyEventPerQuery ==
  [][lastOp'.op = "render"
       => /\ reads' = {} => NamedEvents({"token-query-duration"})' = 0
          /\ ~tokenReads'.loading
               => /\ NamedEvents({"token-query-duration"})' = settledQueries'
                  /\ NamedEvents({"cache-hit", "cache-miss"})' = settledQueries']_vars

============================================================================
